---- MODULE Spec2Model ----
(***************************************************************************)
(* A model of the data-preparation scripts and of the orchestrator         *)
(* run_full_pipeline.py.                                                   *)
(*                                                                         *)
(* Strings are sequences of one-character strings, so that lower(),        *)
(* substring tests, splitext and basename are computed as Python computes  *)
(* them.  A path is a sequence of names (its components below the working  *)
(* directory); the file system is the pair (dirs, files) of sets of paths. *)
(***************************************************************************)
EXTENDS Integers, Sequences, FiniteSets, TLC

VARIABLES
    \* ---- the file system shared by every script
    dirs,           \* set of paths that are directories
    files,          \* set of paths that are regular files
    dirs0,          \* ghost: dirs when the run began
    files0,         \* ghost: files when the run began
    \* ---- run_full_pipeline.main
    pc,             \* position of main: "loop", "wait", "done" ("off": not run)
    step,           \* index into SCRIPTS of the current iteration
    run_summary,    \* the list run_summary
    running,        \* indices of steps whose child process is alive
    children,       \* ghost, per step: launches, exited, rc of the child
    disk,           \* indices of SCRIPTS entries that exist as files
    faults,         \* number of steps that have gone wrong so far
    report,         \* contents of pipeline_report.txt
    logs,           \* step names that have a logs/<name>.log
    \* ---- one call of a tree-walking function of a script
    call,           \* the function called, its root_path and dry_run
    tpc,            \* "idle", "loop", "returned", "crashed"
    found,          \* the list the find_* pass returned
    todo,           \* its entries the loop has not reached yet
    processed,      \* ghost: entries whose iteration ran to its end
    failed,         \* ghost: entries whose file operation raised
    copies,         \* ghost: the pairs <<source, destination>> copied so far
    ret             \* the counters the function returns

pipeVars == <<pc, step, run_summary, running, children, disk, faults, report, logs>>
fsVars == <<dirs, files, dirs0, files0>>
treeVars == <<call, tpc, found, todo, processed, failed, copies, ret>>
vars == <<dirs, files, dirs0, files0,
          pc, step, run_summary, running, children, disk, faults, report, logs,
          call, tpc, found, todo, processed, failed, copies, ret>>

(***************************************************************************)
(* Bounds.                                                                 *)
(***************************************************************************)
\* the number of pipeline steps that may go wrong (missing script, launch
\* failure, non-zero exit) in one run
MaxFaults == 2

(***************************************************************************)
(* Strings.                                                                *)
(***************************************************************************)
Upper == <<"A","B","C","D","E","F","G","H","I","J","K","L","M",
           "N","O","P","Q","R","S","T","U","V","W","X","Y","Z">>
Lower == <<"a","b","c","d","e","f","g","h","i","j","k","l","m",
           "n","o","p","q","r","s","t","u","v","w","x","y","z">>

\* str.lower() on one character
LowerChar(c) ==
    IF \E i \in 1..26 : Upper[i] = c
    THEN Lower[CHOOSE i \in 1..26 : Upper[i] = c]
    ELSE c

\* str.lower()
lower(s) == [i \in 1..Len(s) |-> LowerChar(s[i])]

\* sub in s
Contains(s, sub) ==
    \E i \in 0..(Len(s) - Len(sub)) :
        \A j \in 1..Len(sub) : s[i + j] = sub[j]

\* s.endswith(suf)
EndsWith(s, suf) ==
    /\ Len(suf) <= Len(s)
    /\ \A j \in 1..Len(suf) : s[Len(s) - Len(suf) + j] = suf[j]

\* the index of the dot at which os.path.splitext splits a name, 0 if none:
\* the last dot, unless only dots precede it
SplitDot(name) ==
    LET dots == {i \in 1..Len(name) : name[i] = "."}
        last == IF dots = {} THEN 0 ELSE CHOOSE i \in dots : \A j \in dots : j <= i
    IN  IF last > 0 /\ \E j \in 1..(last - 1) : name[j] # "." THEN last ELSE 0

\* os.path.splitext(name)[0] and [1], for a name without separators
SplitextRoot(name) ==
    IF SplitDot(name) = 0 THEN name ELSE SubSeq(name, 1, SplitDot(name) - 1)
SplitextExt(name) ==
    IF SplitDot(name) = 0 THEN <<>> ELSE SubSeq(name, SplitDot(name), Len(name))

\* str.strip(): whitespace removed at both ends
IsSpace(c) == c \in {" ", "\n", "\t", "\r"}
RECURSIVE lstrip(_)
lstrip(s) == IF s # <<>> /\ IsSpace(Head(s)) THEN lstrip(Tail(s)) ELSE s
RECURSIVE rstrip(_)
rstrip(s) ==
    IF s # <<>> /\ IsSpace(s[Len(s)]) THEN rstrip(SubSeq(s, 1, Len(s) - 1)) ELSE s
strip(s) == rstrip(lstrip(s))

\* what input() returns when the text on standard input is s: the first line
\* without its newline ("eof" when nothing is left to read)
RECURSIVE FirstLine(_)
FirstLine(s) ==
    IF s = <<>> \/ Head(s) = "\n" THEN <<>> ELSE <<Head(s)>> \o FirstLine(Tail(s))

(***************************************************************************)
(* Paths.                                                                  *)
(***************************************************************************)
\* os.path.basename / os.path.dirname of a path with at least one component
basename(p) == p[Len(p)]
dirname(p) == SubSeq(p, 1, Len(p) - 1)
\* os.path.join(p, name)
join(p, name) == Append(p, name)

\* p lies at or below q
IsPrefix(q, p) == Len(q) <= Len(p) /\ SubSeq(p, 1, Len(q)) = q
\* p lies strictly below q
Below(p, q) == Len(q) < Len(p) /\ SubSeq(p, 1, Len(q)) = q

(***************************************************************************)
(* run_full_pipeline.py                                                    *)
(***************************************************************************)
n_convert_tif_to_png == <<"c","o","n","v","e","r","t","_","t","i","f","_","t","o","_","p","n","g",".","p","y">>
n_separate_png_files == <<"s","e","p","a","r","a","t","e","_","p","n","g","_","f","i","l","e","s",".","p","y">>
n_move_reflection_coefficient == <<"m","o","v","e","_","r","e","f","l","e","c","t","i","o","n","_","c","o","e","f","f","i","c","i","e","n","t",".","p","y">>
n_delete_post_files == <<"d","e","l","e","t","e","_","p","o","s","t","_","f","i","l","e","s",".","p","y">>
n_consolidate_png_files == <<"c","o","n","s","o","l","i","d","a","t","e","_","p","n","g","_","f","i","l","e","s",".","p","y">>
n_flatten_crc_structure == <<"f","l","a","t","t","e","n","_","c","r","c","_","s","t","r","u","c","t","u","r","e",".","p","y">>
n_count_png_files == <<"c","o","u","n","t","_","p","n","g","_","f","i","l","e","s",".","p","y">>
n_filter_1858_files == <<"f","i","l","t","e","r","_","1","8","5","8","_","f","i","l","e","s",".","p","y">>
n_filter_uniform_images_1858 == <<"f","i","l","t","e","r","_","u","n","i","f","o","r","m","_","i","m","a","g","e","s","_","1","8","5","8",".","p","y">>
n_divide_images_generic == <<"d","i","v","i","d","e","_","i","m","a","g","e","s","_","g","e","n","e","r","i","c",".","p","y">>
n_create_histograms_for_processed == <<"c","r","e","a","t","e","_","h","i","s","t","o","g","r","a","m","s","_","f","o","r","_","p","r","o","c","e","s","s","e","d",".","p","y">>
n_medical_image_classifier == <<"m","e","d","i","c","a","l","_","i","m","a","g","e","_","c","l","a","s","s","i","f","i","e","r",".","p","y">>
n_histogram_image_classifier == <<"h","i","s","t","o","g","r","a","m","_","i","m","a","g","e","_","c","l","a","s","s","i","f","i","e","r",".","p","y">>
n_divided_image_classifier == <<"d","i","v","i","d","e","d","_","i","m","a","g","e","_","c","l","a","s","s","i","f","i","e","r",".","p","y">>

\* the curated sequence of main(); args is empty in every entry
SCRIPTS == <<
    [script |-> n_convert_tif_to_png,            confirm |-> FALSE],
    [script |-> n_separate_png_files,            confirm |-> FALSE],
    [script |-> n_move_reflection_coefficient,   confirm |-> TRUE],
    [script |-> n_delete_post_files,             confirm |-> TRUE],
    [script |-> n_consolidate_png_files,         confirm |-> FALSE],
    [script |-> n_flatten_crc_structure,         confirm |-> FALSE],
    [script |-> n_count_png_files,               confirm |-> FALSE],
    [script |-> n_filter_1858_files,             confirm |-> FALSE],
    [script |-> n_filter_uniform_images_1858,    confirm |-> FALSE],
    [script |-> n_divide_images_generic,         confirm |-> FALSE],
    [script |-> n_create_histograms_for_processed, confirm |-> FALSE],
    [script |-> n_medical_image_classifier,      confirm |-> FALSE],
    [script |-> n_histogram_image_classifier,    confirm |-> FALSE],
    [script |-> n_divided_image_classifier,      confirm |-> FALSE] >>

NumScripts == Len(SCRIPTS)

\* step_name = os.path.splitext(os.path.basename(script))[0]
StepName(script) == SplitextRoot(script)

\* the text main() sends to the child's standard input
confirm_text == <<"y", "\n">>
InputText(i) == IF SCRIPTS[i].confirm THEN confirm_text ELSE <<>>

\* script_exists(os.path.join(repo_root, script)), mutated: every script is
\* taken to exist
script_exists_always(i) == TRUE

\* script_exists(os.path.join(repo_root, script))
script_exists(i) == i \in disk

\* the exit codes a child may end with
ExitCodes == {0, 1, 2}

\* status of run_script, mutated: the return code is not looked at
StatusAlwaysSuccess(rc) == "success"

\* status = "success" if proc.returncode == 0 else "failed"
Status(rc) == IF rc = 0 THEN "success" ELSE "failed"

\* subprocess.run not waiting for the child (as Popen would)
ChildDoneNoWait(i) == TRUE

\* subprocess.run returns only when the child has exited
ChildDone(i) == i \notin running

NoResult == [status |-> "none", return_code |-> 0]

\* step_entry as main() builds it for SCRIPTS[i]
StepEntry(i, skipped, result) ==
    [name |-> StepName(SCRIPTS[i].script),
     script |-> SCRIPTS[i].script,
     auto_confirm |-> SCRIPTS[i].confirm,
     skipped |-> skipped,
     result |-> result]

\* the section write_report writes for one entry of run_summary
Section(e) ==
    IF e.skipped
    THEN [name |-> e.name, status |-> "SKIPPED", code |-> 0]
    ELSE [name |-> e.name, status |-> e.result.status, code |-> e.result.return_code]

\* write_report: the file is opened with "w" and one section is written per
\* entry of run_summary
write_report(summary) ==
    [sections |-> [k \in 1..Len(summary) |-> Section(summary[k])],
     final |-> <<>>]

\* the totals of the final summary block
Totals(summary) ==
    LET Ran(st) == {k \in 1..Len(summary) :
                      ~summary[k].skipped /\ summary[k].result.status = st}
    IN  [success |-> Cardinality(Ran("success")),
         failed |-> Cardinality(Ran("failed")),
         exception |-> Cardinality(Ran("exception")),
         skipped |-> Cardinality({k \in 1..Len(summary) : summary[k].skipped})]

NoChild == [launches |-> 0, exited |-> FALSE, rc |-> 0, failed_launch |-> FALSE]

\* a report left by an earlier run
StaleReport ==
    [sections |-> <<[name |-> <<"o","l","d">>, status |-> "success", code |-> 0]>>,
     final |-> <<[success |-> 1, failed |-> 0, exception |-> 0, skipped |-> 0]>>]
NoReport == [sections |-> <<>>, final |-> <<>>]


(***************************************************************************)
(* String literals of the scripts.                                         *)
(***************************************************************************)
s_Magnitude == <<"M","a","g","n","i","t","u","d","e">>
s_Phase == <<"P","h","a","s","e">>
s_mix == <<"m","i","x">>
s_post == <<"_","_","p","o","s","t">>
s_weight_2 == <<"w","e","i","g","h","t","_","2">>
s_weight_3 == <<"w","e","i","g","h","t","_","3">>
s_RC == <<"R","e","f","l","e","c","t","i","o","n"," ","C","o","e","f","f","i","c","i","e","n","t">>
s_magnitute == <<"m","a","g","n","i","t","u","t","e">>
s_tumor == <<"t","u","m","o","r">>
s_tumour == <<"t","u","m","o","u","r">>
s_healthy == <<"h","e","a","l","t","h","y">>
s_heathy == <<"h","e","a","t","h","y">>
s_Tumor == <<"T","u","m","o","r">>
s_Tumour == <<"T","u","m","o","u","r">>
s_TUMOR == <<"T","U","M","O","R">>
s_TUMOUR == <<"T","U","M","O","U","R">>
s_underscore == <<"_">>
s_png == <<".","p","n","g">>
s_hist_png == <<".","h","i","s","t",".","p","n","g">>
s_PNG_Files == <<"P","N","G","_","F","i","l","e","s">>
s_Processed == <<"P","r","o","c","e","s","s","e","d">>
s_Processed_filtered == <<"P","r","o","c","e","s","s","e","d","_","f","i","l","t","e","r","e","d">>
s_Processed_histograms == <<"P","r","o","c","e","s","s","e","d","_","h","i","s","t","o","g","r","a","m","s">>
s_yes == <<"y","e","s">>
s_y == <<"y">>
s_no == <<"n","o">>
s_n == <<"n">>

\* str(counter) in an f-string
Digit == <<"0","1","2","3","4","5","6","7","8","9">>
RECURSIVE Dec(_)
Dec(n) == IF n < 10 THEN <<Digit[n + 1]>> ELSE Dec(n \div 10) \o <<Digit[(n % 10) + 1]>>

\* s.replace(old, new): every occurrence, left to right, not overlapping
RECURSIVE replace(_, _, _)
replace(s, old, new) ==
    IF Len(s) < Len(old) THEN s
    ELSE IF SubSeq(s, 1, Len(old)) = old
         THEN new \o replace(SubSeq(s, Len(old) + 1, Len(s)), old, new)
         ELSE <<Head(s)>> \o replace(Tail(s), old, new)

(***************************************************************************)
(* The file system: D is the set of directories, F the set of files.       *)
(***************************************************************************)
\* os.path.exists
exists(p, D, F) == p = <<>> \/ p \in D \/ p \in F

\* what os.walk(root) lists below root: nothing when root is no directory
WalkDirs(root, D) == IF root = <<>> \/ root \in D THEN {d \in D : Below(d, root)} ELSE {}
WalkFiles(root, D, F) == IF root = <<>> \/ root \in D THEN {f \in F : Below(f, root)} ELSE {}

\* shutil.rmtree(p): p and everything below it goes
rmtree_dirs(p, D) == {d \in D : ~IsPrefix(p, d)}
rmtree_files(p, F) == {f \in F : ~IsPrefix(p, f)}

\* the path q that p becomes when the directory old is renamed to new
Rebase(p, old, new) ==
    IF IsPrefix(old, p) THEN new \o SubSeq(p, Len(old) + 1, Len(p)) ELSE p

\* os.makedirs(p, exist_ok=True): p and each of its ancestors
Ancestors(p) == {SubSeq(p, 1, k) : k \in 1..Len(p)}

\* the sequences that list the elements of S once each: the orders in which
\* a directory walk may hand out S
Orders(S) ==
    {o \in [1..Cardinality(S) -> S] : \A i, j \in 1..Cardinality(S) : o[i] = o[j] => i = j}

(***************************************************************************)
(* delete_magnitude_folders.py, delete_phase_folders.py,                   *)
(* delete_mix_folders.py                                                   *)
(***************************************************************************)
\* find_magnitude_folders with os.listdir in place of os.walk: only the
\* folders directly in root_path
find_magnitude_folders_toplevel(root, D) ==
    {d \in WalkDirs(root, D) : basename(d) = s_Magnitude /\ Len(d) = Len(root) + 1}

\* find_magnitude_folders
find_magnitude_folders(root, D) ==
    {d \in WalkDirs(root, D) : basename(d) = s_Magnitude}

\* find_phase_folders
find_phase_folders(root, D) ==
    {d \in WalkDirs(root, D) : basename(d) = s_Phase}

\* find_mix_folders
find_mix_folders(root, D) ==
    {d \in WalkDirs(root, D) : Contains(lower(basename(d)), s_mix)}

\* one iteration of the loop of delete_*_folders, lines 49-60, when nothing
\* raises: the file system and the increment of success_count
delete_folder_step(p, dry_run, D, F) ==
    IF dry_run THEN [dirs |-> D, files |-> F, success |-> 0]
    ELSE IF exists(p, D, F)
         THEN [dirs |-> rmtree_dirs(p, D), files |-> rmtree_files(p, F), success |-> 1]
         ELSE [dirs |-> D, files |-> F, success |-> 0]

(***************************************************************************)
(* delete_post_files.py, delete_weight_files.py                            *)
(***************************************************************************)
\* find_post_files
find_post_files(root, D, F) ==
    {f \in WalkFiles(root, D, F) : Contains(basename(f), s_post)}

\* find_weight_files
find_weight_files(root, D, F) ==
    {f \in WalkFiles(root, D, F) :
        Contains(basename(f), s_weight_2) \/ Contains(basename(f), s_weight_3)}

\* the loop body of delete_post_files with the dry_run test left out
delete_post_step_no_dry_run(p, dry_run, D, F) ==
    IF exists(p, D, F)
    THEN [dirs |-> D, files |-> F \ {p}, success |-> 1]
    ELSE [dirs |-> D, files |-> F, success |-> 0]

\* one iteration of the loop of delete_post_files, lines 47-58, when
\* nothing raises
delete_post_step(p, dry_run, D, F) ==
    IF dry_run THEN [dirs |-> D, files |-> F, success |-> 0]
    ELSE IF exists(p, D, F)
         THEN [dirs |-> D, files |-> F \ {p}, success |-> 1]
         ELSE [dirs |-> D, files |-> F, success |-> 0]

\* one iteration of the loop of delete_weight_files, lines 47-58
delete_weight_step(p, dry_run, D, F) ==
    IF dry_run THEN [dirs |-> D, files |-> F, success |-> 0]
    ELSE IF exists(p, D, F)
         THEN [dirs |-> D, files |-> F \ {p}, success |-> 1]
         ELSE [dirs |-> D, files |-> F, success |-> 0]

(***************************************************************************)
(* rename_folders.py                                                       *)
(***************************************************************************)
\* the new name find_folders_to_rename gives a folder, <<>> for None
NewName(dir_name) ==
    IF Contains(lower(dir_name), s_tumor) \/ Contains(lower(dir_name), s_tumour)
    THEN IF Contains(dir_name, s_underscore)
         THEN s_tumour
         ELSE LET n1 == IF Contains(dir_name, s_Tumor)
                        THEN replace(dir_name, s_Tumor, s_Tumour) ELSE dir_name
                  n2 == IF Contains(dir_name, s_tumor)
                        THEN replace(n1, s_tumor, s_tumour) ELSE n1
                  n3 == IF Contains(dir_name, s_TUMOR)
                        THEN replace(n2, s_TUMOR, s_TUMOUR) ELSE n2
              IN  n3
    ELSE IF Contains(lower(dir_name), s_healthy) /\ lower(dir_name) # s_healthy
         THEN s_healthy
         ELSE <<>>

\* find_folders_to_rename: the old paths; the new path of old is NewPath(old)
find_folders_to_rename(root, D) ==
    {d \in WalkDirs(root, D) : NewName(basename(d)) # <<>> /\ NewName(basename(d)) # basename(d)}
NewPath(old) == join(dirname(old), NewName(basename(old)))

\* one iteration of the loop of rename_folders, lines 78-95, when nothing
\* raises
rename_step(old, dry_run, D, F) ==
    IF dry_run THEN [dirs |-> D, files |-> F, success |-> 0]
    ELSE IF exists(old, D, F)
         THEN IF exists(NewPath(old), D, F)
              THEN [dirs |-> D, files |-> F, success |-> 0]
              ELSE [dirs |-> {Rebase(d, old, NewPath(old)) : d \in D},
                    files |-> {Rebase(f, old, NewPath(old)) : f \in F},
                    success |-> 1]
         ELSE [dirs |-> D, files |-> F, success |-> 0]

(***************************************************************************)
(* move_reflection_coefficient.py                                          *)
(***************************************************************************)
\* find_reflection_coefficient_folders
find_reflection_coefficient_folders(root, D) ==
    {d \in WalkDirs(root, D) : basename(d) = s_RC}

\* lines 72-80: the first of dest, dest_1, dest_2, ... that does not exist
RECURSIVE FreeDest(_, _, _, _)
FreeDest(original_dest, counter, D, F) ==
    LET name == basename(original_dest)
        dest == IF counter = 0 THEN original_dest
                ELSE join(dirname(original_dest),
                          SplitextRoot(name) \o s_underscore \o Dec(counter) \o SplitextExt(name))
    IN  IF exists(dest, D, F) THEN FreeDest(original_dest, counter + 1, D, F) ELSE dest

\* lines 70-83: the files of the list are moved to parent_dir one by one
RECURSIVE MoveAll(_, _, _, _)
MoveAll(file_list, parent_dir, D, F) ==
    IF file_list = <<>> THEN F
    ELSE LET file_path == Head(file_list)
             dest_path == FreeDest(join(parent_dir, basename(file_path)), 0, D, F)
         IN  MoveAll(Tail(file_list), parent_dir, D, (F \ {file_path}) \cup {dest_path})

\* one iteration of the loop of move_files_from_reflection_coefficient,
\* lines 49-95, when shutil.move does not raise; files_in_folder is the list
\* os.walk(folder_path) gave.  os.rmdir raises when the folder still holds a
\* subdirectory: the files stay moved and the folder is counted as an error.
move_step(folder_path, files_in_folder, dry_run, D, F) ==
    IF files_in_folder = <<>> \/ dry_run
    THEN [dirs |-> D, files |-> F, success |-> 0, error |-> 0]
    ELSE LET F2 == MoveAll(files_in_folder, dirname(folder_path), D, F)
         IN  IF \E d \in D : Below(d, folder_path)
             THEN [dirs |-> D, files |-> F2, success |-> 0, error |-> 1]
             ELSE [dirs |-> D \ {folder_path}, files |-> F2, success |-> 1, error |-> 0]

(***************************************************************************)
(* delete_magnitute_folders.py                                             *)
(***************************************************************************)
\* find_magnitute_folders_recursive(directory): the folders it prints; it
\* does not descend into a folder it has printed
find_magnitute_folders_recursive(directory, D) ==
    {d \in WalkDirs(directory, D) :
        /\ lower(basename(d)) = s_magnitute
        /\ \A k \in (Len(directory) + 1)..(Len(d) - 1) : lower(d[k]) # s_magnitute}

(***************************************************************************)
(* One call of a function that first lists a tree and then loops over the  *)
(* list.  The list is in the order os.walk gave it: a directory comes      *)
(* before everything below it, the order of the entries of one directory   *)
(* is the operating system's.                                              *)
(***************************************************************************)
(***************************************************************************)
(* filter_uniform_images.py, create_histograms_for_processed.py            *)
(***************************************************************************)
\* file.lower().endswith('.png')
IsPngName(file) == EndsWith(lower(file), s_png)

\* pathlib: PurePath.suffix of a file name: from the last dot on, unless that
\* dot is the first or the last character
PathSuffix(name) ==
    LET dots == {i \in 1..Len(name) : name[i] = "."}
        last == IF dots = {} THEN 0 ELSE CHOOSE i \in dots : \A j \in dots : j <= i
    IN  IF 1 < last /\ last < Len(name) THEN SubSeq(name, last, Len(name)) ELSE <<>>

\* pathlib: PurePath.with_suffix, on the file name
with_suffix(name, suffix) ==
    SubSeq(name, 1, Len(name) - Len(PathSuffix(name))) \o suffix

\* pathlib: p.relative_to(base), for p below base
relative_to(p, base) == SubSeq(p, Len(base) + 1, Len(p))

\* the PNG files os.walk(src_dir) hands to the loop
FindPngs(src_dir, D, F) == {f \in WalkFiles(src_dir, D, F) : IsPngName(basename(f))}

\* filter_uniform_images, lines 23-30, for one file that decodes: a
\* non-uniform image is copied to dst_dir under its relative path
filter_uniform_step(src_path, uniform, src_dir, dst_dir, D, F) ==
    LET dst_path == dst_dir \o relative_to(src_path, src_dir)
    IN  IF uniform
        THEN [dirs |-> D, files |-> F, success |-> 0]
        ELSE [dirs |-> D \cup Ancestors(dirname(dst_path)),
              files |-> F \cup {dst_path},
              success |-> 1]

\* process_all_images, lines 33-37, and save_histogram for one file that
\* decodes
histogram_step(img_path, src_dir, dst_dir, D, F) ==
    LET rel_path == relative_to(img_path, src_dir)
        hist_path == dst_dir \o dirname(rel_path)
                       \o <<with_suffix(basename(rel_path), s_hist_png)>>
    IN  [dirs |-> D \cup Ancestors(dirname(hist_path)),
         files |-> F \cup {hist_path},
         success |-> 1]

(***************************************************************************)
(* consolidate_png_files.py                                                *)
(***************************************************************************)
Categories == {s_healthy, s_tumour, s_heathy}

\* the components of a path, as 'in root_path.parts' sees them
Parts(p) == {p[k] : k \in 1..Len(p)}

\* lines 97-108 with the tests for 'healthy' and 'tumour' in the other order
CategoryTumourFirst(root_path) ==
    IF s_tumour \in Parts(root_path) THEN s_tumour
    ELSE IF s_healthy \in Parts(root_path) THEN s_healthy
    ELSE IF s_heathy \in Parts(root_path) THEN s_healthy
    ELSE <<>>

\* lines 97-108: the category of a directory, <<>> when it has none
Category(root_path) ==
    IF s_healthy \in Parts(root_path) THEN s_healthy
    ELSE IF s_tumour \in Parts(root_path) THEN s_tumour
    ELSE IF s_heathy \in Parts(root_path) THEN s_healthy
    ELSE <<>>

\* lines 41-46: the position of the first category component, 0 for none
CategoryIndex(path_parts) ==
    LET hits == {i \in 1..Len(path_parts) : path_parts[i] \in Categories}
    IN  IF hits = {} THEN 0 ELSE CHOOSE i \in hits : \A j \in hits : i <= j

\* lines 52-72: the folder the file goes to below dest_base_dir
DestFolder(source_path, source_dir, dest_base_dir) ==
    LET path_parts == relative_to(source_path, source_dir)
        ci == CategoryIndex(path_parts)
        folder_structure == SubSeq(path_parts, 1, ci - 1)
        remaining_path == SubSeq(path_parts, ci + 1, Len(path_parts))
    IN  dest_base_dir \o folder_structure
           \o SubSeq(remaining_path, 1, Len(remaining_path) - 1)

\* does copy_files_with_structure reach the copy for this file
ReachesCopy(source_path, source_dir) ==
    /\ lower(PathSuffix(basename(source_path))) = s_png
    /\ CategoryIndex(relative_to(source_path, source_dir)) # 0

\* the PNG files of the directories the walk does not skip: every directory
\* below source_dir, not source_dir itself
FindConsolidate(source_dir, D, F) ==
    {f \in FindPngs(source_dir, D, F) : Len(f) > Len(source_dir) + 1}

FolderFns == {"delete_magnitude_folders", "delete_phase_folders", "delete_mix_folders"}
FileFns == {"delete_post_files", "delete_weight_files"}
DryRunFns == FolderFns \cup FileFns \cup {"rename_folders", "move_files_from_reflection_coefficient"}

\* the list the function's find_* pass returns
Find(fn, root, D, F) ==
    CASE fn = "delete_magnitude_folders" -> find_magnitude_folders(root, D)
      [] fn = "delete_phase_folders" -> find_phase_folders(root, D)
      [] fn = "delete_mix_folders" -> find_mix_folders(root, D)
      [] fn = "delete_post_files" -> find_post_files(root, D, F)
      [] fn = "delete_weight_files" -> find_weight_files(root, D, F)
      [] fn = "rename_folders" -> find_folders_to_rename(root, D)
      [] fn = "move_files_from_reflection_coefficient" ->
            find_reflection_coefficient_folders(root, D)
      [] fn = "filter_uniform_images" -> FindPngs(root, D, F)
      [] fn = "process_all_images" -> FindPngs(root, D, F)
      [] fn = "consolidate_png_files" -> FindConsolidate(root, D, F)

NoCall == [fn |-> "none", root |-> <<>>, dry_run |-> TRUE]
ZeroRet == [success_count |-> 0, error_count |-> 0, found_count |-> 0]

\* the entries the loop may reach next
NextItems == {p \in todo : ~\E q \in todo : Below(p, q)}

\* the function is entered: the find pass, the counters, and the early
\* return when the list is empty
Enter(fn, root, dry_run) ==
    /\ call' = [fn |-> fn, root |-> root, dry_run |-> dry_run]
    /\ found' = Find(fn, root, dirs, files)
    /\ todo' = Find(fn, root, dirs, files)
    /\ processed' = {}
    /\ failed' = {}
    /\ copies' = {}
    /\ ret' = ZeroRet
    /\ tpc' = IF Find(fn, root, dirs, files) = {} THEN "returned" ELSE "loop"

\* the iteration for entry p ends with the file system (D, F) and the
\* counters raised by success and error
EndIteration(p, D, F, success, error) ==
    /\ dirs' = D
    /\ files' = F
    /\ ret' = [ret EXCEPT !.success_count = @ + success, !.error_count = @ + error]
    /\ todo' = todo \ {p}
    /\ processed' = processed \cup {p}
    /\ tpc' = IF todo \ {p} = {} THEN "returned" ELSE "loop"
    /\ UNCHANGED <<call, found, failed, copies, dirs0, files0>>

\* a call from the command line or a test
CallFn ==
    /\ tpc = "idle"
    /\ pc = "off"
    /\ \E fn \in DryRunFns, dry_run \in BOOLEAN : Enter(fn, <<>>, dry_run)
    /\ UNCHANGED <<fsVars, pipeVars>>

\* delete_magnitude_folders, delete_phase_folders, delete_mix_folders:
\* one iteration of the loop
DeleteFolderStep ==
    /\ tpc = "loop"
    /\ call.fn \in FolderFns
    /\ \E p \in NextItems :
          LET r == delete_folder_step(p, call.dry_run, dirs, files)
          IN  EndIteration(p, r.dirs, r.files, r.success, 0)
    /\ UNCHANGED pipeVars

\* delete_post_files: one iteration of the loop
DeletePostStep ==
    /\ tpc = "loop"
    /\ call.fn = "delete_post_files"
    /\ \E p \in NextItems :
          LET r == delete_post_step(p, call.dry_run, dirs, files)
          IN  EndIteration(p, r.dirs, r.files, r.success, 0)
    /\ UNCHANGED pipeVars

\* delete_weight_files: one iteration of the loop
DeleteWeightStep ==
    /\ tpc = "loop"
    /\ call.fn = "delete_weight_files"
    /\ \E p \in NextItems :
          LET r == delete_weight_step(p, call.dry_run, dirs, files)
          IN  EndIteration(p, r.dirs, r.files, r.success, 0)
    /\ UNCHANGED pipeVars

\* rename_folders: one iteration of the loop
RenameStep ==
    /\ tpc = "loop"
    /\ call.fn = "rename_folders"
    /\ \E p \in NextItems :
          LET r == rename_step(p, call.dry_run, dirs, files)
          IN  EndIteration(p, r.dirs, r.files, r.success, 0)
    /\ UNCHANGED pipeVars

\* move_files_from_reflection_coefficient: one iteration of the loop
MoveStep ==
    /\ tpc = "loop"
    /\ call.fn = "move_files_from_reflection_coefficient"
    /\ \E p \in NextItems :
          \E files_in_folder \in Orders(WalkFiles(p, dirs, files)) :
             LET r == move_step(p, files_in_folder, call.dry_run, dirs, files)
             IN  EndIteration(p, r.dirs, r.files, r.success, r.error)
    /\ UNCHANGED pipeVars

\* the file operation of an iteration (rmtree, remove, rename, move) raises:
\* the except branch counts the error and the loop goes on
StepRaises ==
    /\ tpc = "loop"
    /\ call.fn \in DryRunFns
    /\ ~call.dry_run
    /\ \E p \in NextItems :
          /\ exists(p, dirs, files)
          /\ ret' = [ret EXCEPT !.error_count = @ + 1]
          /\ todo' = todo \ {p}
          /\ failed' = failed \cup {p}
          /\ tpc' = IF todo \ {p} = {} THEN "returned" ELSE "loop"
    /\ UNCHANGED <<call, found, processed, copies>>
    /\ UNCHANGED <<fsVars, pipeVars>>

\* delete_magnitute_folders.py, main: the whole run
MagnituteMain ==
    /\ tpc = "idle"
    /\ pc = "off"
    /\ call' = [fn |-> "delete_magnitute_folders.main", root |-> <<>>, dry_run |-> FALSE]
    /\ found' = find_magnitute_folders_recursive(<<>>, dirs)
    /\ ret' = [ZeroRet EXCEPT
                 !.found_count = Cardinality(find_magnitute_folders_recursive(<<>>, dirs))]
    /\ tpc' = "returned"
    /\ UNCHANGED <<todo, processed, failed, copies>>
    /\ UNCHANGED <<fsVars, pipeVars>>

(***************************************************************************)
(* The trees the functions are called on.                                  *)
(***************************************************************************)
\* the largest number of files and folders in a tree
MaxTreeNodes == 4

t_A == <<"A">>
t_Mix1 == <<"M","i","x","1">>
t_X_Tumor == <<"X","_","T","u","m","o","r">>
t_MAGNITUTE == <<"M","A","G","N","I","T","U","T","E">>
t_a_png == <<"a",".","p","n","g">>
t_k_post_png == <<"k","_","_","p","o","s","t",".","p","n","g">>
t_weight_2_h5 == <<"w","e","i","g","h","t","_","2",".","h","5">>

TreeDirs ==
    { <<t_A>>, <<t_A, s_Magnitude>>, <<s_Magnitude>>, <<s_Magnitude, s_Magnitude>>,
      <<s_Phase>>, <<t_Mix1>>, <<s_RC>>, <<t_X_Tumor>>, <<t_MAGNITUTE>> }
TreeFiles ==
    { <<t_a_png>>, <<s_RC, t_a_png>>, <<s_Magnitude, t_k_post_png>>,
      <<t_A, t_weight_2_h5>>, <<t_X_Tumor, t_a_png>> }

\* every file and folder lies in a folder of the tree
Closed(T) == \A p \in T : Len(p) > 1 => dirname(p) \in T \cap TreeDirs

Trees ==
    {T \in SUBSET (TreeDirs \cup TreeFiles) : Cardinality(T) <= MaxTreeNodes /\ Closed(T)}

PipeOff ==
    /\ pc = "off"
    /\ step = 0
    /\ run_summary = <<>>
    /\ running = {}
    /\ children = <<>>
    /\ disk = {}
    /\ faults = 0
    /\ report = NoReport
    /\ logs = {}

InitTree ==
    /\ \E T \in Trees :
          /\ dirs = T \cap TreeDirs
          /\ files = T \cap TreeFiles
          /\ dirs0 = T \cap TreeDirs
          /\ files0 = T \cap TreeFiles
    /\ call = NoCall
    /\ tpc = "idle"
    /\ found = {}
    /\ todo = {}
    /\ processed = {}
    /\ failed = {}
    /\ copies = {}
    /\ ret = ZeroRet
    /\ PipeOff

NextTree ==
    \/ CallFn
    \/ DeleteFolderStep
    \/ DeletePostStep
    \/ DeleteWeightStep
    \/ RenameStep
    \/ MoveStep
    \/ StepRaises
    \/ MagnituteMain

SpecTree == InitTree /\ [][NextTree]_vars

(***************************************************************************)
(* Claims about the cleanup functions.                                     *)
(***************************************************************************)
\* C8: a call of delete_magnitude_folders, delete_phase_folders,
\* delete_mix_folders, delete_post_files, delete_weight_files, rename_folders
\* or move_files_from_reflection_coefficient with dry_run=True leaves the file
\* system as it was, at every iteration and at the return, and returns
\* success_count 0.
C8_DryRunChangesNothing ==
    (call.fn \in DryRunFns /\ call.dry_run) =>
        /\ dirs = dirs0
        /\ files = files0
        /\ ret.success_count = 0

\* C8 witness: a dry run has returned after looping over a non-empty list
C8_Witness ==
    /\ tpc = "returned"
    /\ call.fn = "delete_post_files"
    /\ call.dry_run
    /\ found # {}
    /\ processed = found

\* p lies in, or is, a folder called name of the tree the call began with
InsideNamed(p, name) == \E k \in 1..Len(p) : p[k] = name /\ SubSeq(p, 1, k) \in dirs0

DeletedName(fn) == IF fn = "delete_magnitude_folders" THEN s_Magnitude ELSE s_Phase

\* C9: after delete_magnitude_folders(root, dry_run=False) (delete_phase_folders)
\* has returned with error_count 0, no directory named Magnitude (Phase) is
\* left under root, nested ones included, and every file and folder that was
\* not inside such a directory is still there; nothing else has appeared.
C9_NamedFoldersGone ==
    (/\ tpc = "returned"
     /\ call.fn \in {"delete_magnitude_folders", "delete_phase_folders"}
     /\ ~call.dry_run
     /\ ret.error_count = 0) =>
        /\ \A d \in dirs : Below(d, call.root) => basename(d) # DeletedName(call.fn)
        /\ \A d \in dirs0 : ~InsideNamed(d, DeletedName(call.fn)) => d \in dirs
        /\ \A f \in files0 : ~InsideNamed(f, DeletedName(call.fn)) => f \in files
        /\ dirs \subseteq dirs0
        /\ files \subseteq files0

\* C9 witness: Magnitude folders nested in one another were deleted and a
\* file outside them is left
C9_Witness ==
    /\ tpc = "returned"
    /\ call.fn = "delete_magnitude_folders"
    /\ ~call.dry_run
    /\ ret.error_count = 0
    /\ <<s_Magnitude, s_Magnitude>> \in dirs0
    /\ ret.success_count = 1
    /\ files # {}

\* C10 (the claim as stated): after main() of delete_magnitute_folders.py has
\* returned, no folder whose lower-cased name is 'magnitute' is left under
\* the search path.
C10_NoMagnituteFolderLeft ==
    (tpc = "returned" /\ call.fn = "delete_magnitute_folders.main") =>
        \A d \in dirs : Below(d, call.root) => lower(basename(d)) # s_magnitute

(***************************************************************************)
(* run_full_pipeline.main                                                  *)
(***************************************************************************)
InitPipe ==
    /\ pc = "loop"
    /\ step = 1
    /\ run_summary = <<>>
    /\ running = {}
    /\ children = [i \in 1..NumScripts |-> NoChild]
    /\ \E missing \in SUBSET (1..NumScripts) :
          /\ Cardinality(missing) <= MaxFaults
          /\ disk = (1..NumScripts) \ missing
          /\ faults = Cardinality(missing)
    /\ report \in {NoReport, StaleReport}
    /\ logs = {}

\* main, lines 178-182: the script is not on disk
SkipStep ==
    /\ pc = "loop"
    /\ step <= NumScripts
    /\ ~script_exists(step)
    /\ run_summary' = Append(run_summary, StepEntry(step, TRUE, NoResult))
    /\ step' = step + 1
    /\ UNCHANGED <<pc, running, children, disk, faults, report, logs>>
    /\ UNCHANGED <<fsVars, treeVars>>

\* main, lines 184-186 and run_script, lines 38-49: the child is started
Launch ==
    /\ pc = "loop"
    /\ step <= NumScripts
    /\ script_exists(step)
    /\ running' = running \cup {step}
    /\ children' = [children EXCEPT ![step].launches = @ + 1]
    /\ pc' = "wait"
    /\ UNCHANGED <<step, run_summary, disk, faults, report, logs>>
    /\ UNCHANGED <<fsVars, treeVars>>

\* run_script, lines 54-58, then main, lines 187-193: subprocess.run raises,
\* no child runs
LaunchFails ==
    /\ pc = "loop"
    /\ step <= NumScripts
    /\ script_exists(step)
    /\ faults < MaxFaults
    /\ faults' = faults + 1
    /\ children' = [children EXCEPT ![step].failed_launch = TRUE]
    /\ LET result == [status |-> "exception", return_code |-> -1]
           summary == Append(run_summary, StepEntry(step, FALSE, result))
       IN  /\ run_summary' = summary
           /\ logs' = logs \cup {StepName(SCRIPTS[step].script)}
           /\ report' = write_report(summary)
    /\ step' = step + 1
    /\ UNCHANGED <<pc, running, disk>>
    /\ UNCHANGED <<fsVars, treeVars>>

\* the scripts whose main() is modelled step by step; the child of any other
\* script is only seen to start and to exit
MainFn(i) ==
    CASE SCRIPTS[i].script = n_delete_post_files -> "delete_post_files"
      [] SCRIPTS[i].script = n_move_reflection_coefficient ->
            "move_files_from_reflection_coefficient"
      [] OTHER -> "none"

\* main() of delete_post_files.py and of move_reflection_coefficient.py, run
\* as the child of step i, up to the call of the function: the scan of
\* PNG_Files, the confirmation read from standard input, the call with
\* dry_run=False.  A second input() finds the input at its end and raises.
ChildMain(i) ==
    /\ i \in running
    /\ MainFn(i) # "none"
    /\ tpc = "idle"
    /\ LET response == strip(lower(FirstLine(InputText(i))))
       IN  IF Find(MainFn(i), <<s_PNG_Files>>, dirs, files) = {}
           THEN tpc' = "returned" /\ UNCHANGED <<call, found, todo, processed, failed, copies, ret>>
           ELSE IF response \in {s_yes, s_y}
                THEN Enter(MainFn(i), <<s_PNG_Files>>, FALSE)
                ELSE /\ tpc' = IF response \in {s_no, s_n} THEN "returned" ELSE "crashed"
                     /\ UNCHANGED <<call, found, todo, processed, failed, copies, ret>>
    /\ UNCHANGED <<fsVars, pipeVars>>

\* the child process of step i ends with exit code rc: 0 when its main() has
\* returned, another code when it died of an exception or was killed
ChildExit(i, rc) ==
    /\ i \in running
    /\ rc # 0 => faults < MaxFaults
    /\ rc = 0 => (IF MainFn(i) = "none" THEN tpc = "idle" ELSE tpc = "returned")
    /\ faults' = IF rc # 0 THEN faults + 1 ELSE faults
    /\ running' = running \ {i}
    /\ children' = [children EXCEPT ![i].exited = TRUE, ![i].rc = rc]
    /\ call' = [fn |-> "none", root |-> <<>>, dry_run |-> TRUE]
    /\ tpc' = "idle"
    /\ found' = {}
    /\ todo' = {}
    /\ processed' = {}
    /\ failed' = {}
    /\ copies' = {}
    /\ ret' = [success_count |-> 0, error_count |-> 0, found_count |-> 0]
    /\ UNCHANGED <<pc, step, run_summary, disk, report, logs>>
    /\ UNCHANGED fsVars

\* run_script, lines 50-71, then main, lines 187-193: subprocess.run returns
StepReturns ==
    /\ pc = "wait"
    /\ ChildDone(step)
    /\ LET result == [status |-> Status(children[step].rc),
                      return_code |-> children[step].rc]
           summary == Append(run_summary, StepEntry(step, FALSE, result))
       IN  /\ run_summary' = summary
           /\ logs' = logs \cup {StepName(SCRIPTS[step].script)}
           /\ report' = write_report(summary)
    /\ step' = step + 1
    /\ pc' = "loop"
    /\ UNCHANGED <<running, children, disk, faults>>
    /\ UNCHANGED <<fsVars, treeVars>>

\* main, lines 195-224: the final summary is appended to the report
Finish ==
    /\ pc = "loop"
    /\ step > NumScripts
    /\ report' = [report EXCEPT !.final = Append(@, Totals(run_summary))]
    /\ pc' = "done"
    /\ UNCHANGED <<step, run_summary, running, children, disk, faults, logs>>
    /\ UNCHANGED <<fsVars, treeVars>>

\* the tree the pipeline is started on: PNG_Files of an earlier run
PipelineDirs == { <<s_PNG_Files>>, <<s_PNG_Files, s_RC>> }
PipelineFiles ==
    { <<s_PNG_Files, t_a_png>>, <<s_PNG_Files, s_RC, t_a_png>>,
      <<s_PNG_Files, t_k_post_png>> }

InitPipeline ==
    /\ InitPipe
    /\ dirs = PipelineDirs
    /\ files = PipelineFiles
    /\ dirs0 = PipelineDirs
    /\ files0 = PipelineFiles
    /\ call = [fn |-> "none", root |-> <<>>, dry_run |-> TRUE]
    /\ tpc = "idle"
    /\ found = {}
    /\ todo = {}
    /\ processed = {}
    /\ failed = {}
    /\ copies = {}
    /\ ret = [success_count |-> 0, error_count |-> 0, found_count |-> 0]

NextPipeline ==
    \/ SkipStep
    \/ Launch
    \/ LaunchFails
    \/ \E i \in 1..NumScripts : ChildMain(i)
    \/ DeletePostStep
    \/ MoveStep
    \/ \E i \in 1..NumScripts, rc \in ExitCodes : ChildExit(i, rc)
    \/ StepReturns
    \/ Finish

SpecPipeline == InitPipeline /\ [][NextPipeline]_vars

(***************************************************************************)
(* Claims about run_full_pipeline.main.                                    *)
(***************************************************************************)
Launched(i) == children[i].launches > 0
Recorded(i) == i <= Len(run_summary) /\ run_summary[i].script = SCRIPTS[i].script

\* C1: at every moment at most one child script process is running; the
\* child of a step is launched only after the children of all earlier steps
\* have exited and those steps have been recorded in run_summary, so the
\* launches follow the order of SCRIPTS.
C1_OneChildAtATime ==
    /\ Cardinality(running) <= 1
    /\ \A i \in running : i = step /\ pc = "wait"
    /\ \A i \in 1..NumScripts :
          Launched(i) =>
             \A j \in 1..(i - 1) :
                /\ j \notin running
                /\ Recorded(j)
                /\ Launched(j) => children[j].exited

\* C1 witness: the child of a later step runs after an earlier child exited
C1_Witness ==
    \E i \in running : \E j \in 1..(i - 1) : children[j].exited /\ Recorded(j)

\* C2: a step whose child exits with a non-zero code is recorded as "failed"
\* with that code, one whose child cannot be launched as "exception" with
\* code -1; no script is launched twice; and when main is done every entry
\* of SCRIPTS has been processed, whatever failed before it.
C2_FailureRecordedNoHalt ==
    /\ \A i \in 1..NumScripts : children[i].launches <= 1
    /\ \A k \in 1..Len(run_summary) :
          /\ run_summary[k].script = SCRIPTS[k].script
          /\ (children[k].exited /\ children[k].rc # 0) =>
                /\ ~run_summary[k].skipped
                /\ run_summary[k].result =
                      [status |-> "failed", return_code |-> children[k].rc]
          /\ children[k].failed_launch =>
                /\ ~run_summary[k].skipped
                /\ children[k].launches = 0
                /\ run_summary[k].result =
                      [status |-> "exception", return_code |-> -1]
    /\ pc = "done" =>
          /\ Len(run_summary) = NumScripts
          /\ \A k \in 1..NumScripts :
                k \in disk /\ ~children[k].failed_launch => children[k].exited

\* C2 witness: main is done, a child failed and the next script was still run
C2_Witness ==
    /\ pc = "done"
    /\ \E k \in 1..(NumScripts - 1) :
          /\ children[k].exited /\ children[k].rc # 0
          /\ children[k + 1].exited

\* C3 (the claim as stated): when main is done the report holds exactly one
\* section per entry of SCRIPTS, in list order, executed or skipped, followed
\* by the final summary.
C3_ReportComplete ==
    pc = "done" =>
       /\ Len(report.sections) = NumScripts
       /\ \A k \in 1..NumScripts :
             report.sections[k].name = StepName(SCRIPTS[k].script)
       /\ Len(report.final) = 1

\* C4: a script that is not on disk gets no process, is recorded as skipped,
\* and the loop goes on; in the final summary it is counted under "skipped"
\* and under no other status.
C4_MissingScriptSkipped ==
    /\ \A i \in (1..NumScripts) \ disk :
          /\ children[i].launches = 0
          /\ ~children[i].failed_launch
          /\ i < step => Recorded(i) /\ run_summary[i].skipped
    /\ pc = "done" =>
          LET t == report.final[Len(report.final)]
          IN  /\ Len(run_summary) = NumScripts
              /\ t.skipped = Cardinality((1..NumScripts) \ disk)
              /\ t.success + t.failed + t.exception = Cardinality(disk)

\* C4 witness: main is done, a script was missing and the next one was run
C4_Witness ==
    /\ pc = "done"
    /\ \E i \in 1..(NumScripts - 1) :
          i \notin disk /\ run_summary[i].skipped /\ children[i + 1].exited

\* C6 (the claim as stated): the default SCRIPTS list runs no destructive
\* step: every file and folder that existed before the pipeline run is still
\* at its place, at every moment of the run.
C6_NothingPreexistingRemoved ==
    pc # "off" => (dirs0 \subseteq dirs /\ files0 \subseteq files)

(***************************************************************************)
(* The scripts that work on the files while they walk the tree.            *)
(***************************************************************************)
WalkFns == {"filter_uniform_images", "process_all_images", "delete_post_files"}

\* the directory each walks by default
WalkRoot(fn) ==
    CASE fn = "filter_uniform_images" -> <<s_Processed>>
      [] fn = "process_all_images" -> <<s_Processed_filtered>>
      [] fn = "delete_post_files" -> <<s_PNG_Files>>

\* filter_uniform_images(), process_all_images(), or
\* delete_post_files("PNG_Files", dry_run=False) as main() calls it
CallWalkFn ==
    /\ tpc = "idle"
    /\ pc = "off"
    /\ \E fn \in WalkFns : Enter(fn, WalkRoot(fn), FALSE)
    /\ UNCHANGED <<fsVars, pipeVars>>

\* filter_uniform_images: one file, which decodes
FilterUniformStep ==
    /\ tpc = "loop"
    /\ call.fn = "filter_uniform_images"
    /\ \E p \in NextItems, uniform \in BOOLEAN :
          LET r == filter_uniform_step(p, uniform, call.root, <<s_Processed_filtered>>,
                                       dirs, files)
          IN  EndIteration(p, r.dirs, r.files, r.success, 0)
    /\ UNCHANGED pipeVars

\* process_all_images: one file, which decodes
HistogramStep ==
    /\ tpc = "loop"
    /\ call.fn = "process_all_images"
    /\ \E p \in NextItems :
          LET r == histogram_step(p, call.root, <<s_Processed_histograms>>, dirs, files)
          IN  EndIteration(p, r.dirs, r.files, r.success, 0)
    /\ UNCHANGED pipeVars

\* is_uniform_image / save_histogram: Image.open raises on a file that is no
\* readable image; neither function nor its caller has a try, so the
\* exception leaves the loop and ends the script
ImageOpenRaises ==
    /\ tpc = "loop"
    /\ call.fn \in {"filter_uniform_images", "process_all_images"}
    /\ \E p \in NextItems : failed' = failed \cup {p}
    /\ tpc' = "crashed"
    /\ UNCHANGED <<call, found, todo, processed, copies, ret>>
    /\ UNCHANGED <<fsVars, pipeVars>>

\* the largest number of files in a tree of SpecWalk and SpecConsolidate
MaxPngFiles == 2

\* the sets of at most k elements of S
RECURSIVE SubsetsUpTo(_, _)
SubsetsUpTo(S, k) ==
    IF k = 0 THEN {{}}
    ELSE LET prev == SubsetsUpTo(S, k - 1)
         IN  prev \cup {T \cup {x} : T \in prev, x \in S}

\* the folders a set of files lies in
DirsOf(Fs) == UNION {Ancestors(dirname(f)) : f \in Fs}

WalkRoots == {s_Processed, s_Processed_filtered, s_PNG_Files}
WalkUniverse ==
    UNION { { <<r, s_healthy, t_a_png>>, <<r, s_healthy, t_k_post_png>>,
              <<r, s_tumour, t_k_post_png>> } : r \in WalkRoots }

TreeIdle ==
    /\ call = NoCall
    /\ tpc = "idle"
    /\ found = {}
    /\ todo = {}
    /\ processed = {}
    /\ failed = {}
    /\ copies = {}
    /\ ret = ZeroRet

InitWalk ==
    /\ \E Fs \in SubsetsUpTo(WalkUniverse, MaxPngFiles) :
          /\ files = Fs
          /\ files0 = Fs
          /\ dirs = DirsOf(Fs)
          /\ dirs0 = DirsOf(Fs)
    /\ TreeIdle
    /\ PipeOff

NextWalk ==
    \/ CallWalkFn
    \/ FilterUniformStep
    \/ HistogramStep
    \/ ImageOpenRaises
    \/ DeletePostStep
    \/ StepRaises

SpecWalk == InitWalk /\ [][NextWalk]_vars

\* C5 (the claim as stated): in a script that walks a directory tree, the
\* failure of the operation on one item does not keep the remaining items
\* from being processed: when the script has ended, every item of the walk
\* whose own operation did not fail has been processed.
C5_FailureSkipsOnlyTheItem ==
    (call.fn \in WalkFns /\ tpc \in {"returned", "crashed"}) =>
        (found \ failed) \subseteq processed

(***************************************************************************)
(* consolidate_png_files                                                   *)
(***************************************************************************)
DestBase(category) == <<s_Processed, category>>

\* lines 16-29: the two destination directories are made, the walk begins
ConsolidateCall ==
    /\ tpc = "idle"
    /\ pc = "off"
    /\ Enter("consolidate_png_files", <<s_PNG_Files>>, FALSE)
    /\ dirs' = dirs \cup {<<s_Processed>>, DestBase(s_healthy), DestBase(s_tumour)}
    /\ UNCHANGED <<files, dirs0, files0>>
    /\ UNCHANGED pipeVars

\* lines 93-113 and copy_files_with_structure for one PNG file; raises is
\* whether shutil.copy2 raises (it is caught and the walk goes on)
ConsolidateFile(p, raises) ==
    LET category == Category(dirname(p))
        dest_folder == DestFolder(p, call.root, DestBase(category))
        dest_file_path == join(dest_folder, basename(p))
    IN  /\ IF category = <<>> \/ ~ReachesCopy(p, call.root)
           THEN /\ ~raises
                /\ UNCHANGED <<dirs, files, copies, failed, ret>>
           ELSE /\ dirs' = dirs \cup Ancestors(dest_folder)
                /\ files' = IF raises THEN files ELSE files \cup {dest_file_path}
                /\ copies' = IF raises THEN copies ELSE copies \cup {<<p, dest_file_path>>}
                /\ failed' = IF raises THEN failed \cup {p} ELSE failed
                /\ ret' = IF raises THEN ret
                          ELSE [ret EXCEPT !.success_count = @ + 1]
        /\ todo' = todo \ {p}
        /\ processed' = processed \cup {p}
        /\ tpc' = IF todo \ {p} = {} THEN "returned" ELSE "loop"
        /\ UNCHANGED <<call, found, dirs0, files0>>

ConsolidateStep ==
    /\ tpc = "loop"
    /\ call.fn = "consolidate_png_files"
    /\ \E p \in NextItems, raises \in BOOLEAN : ConsolidateFile(p, raises)
    /\ UNCHANGED pipeVars

t_B_PNG == <<"B",".","P","N","G">>
t_dot_png == <<".","p","n","g">>
t_n_txt == <<"n",".","t","x","t">>

ConsolidateFolderNames == {s_healthy, s_tumour, s_heathy, t_A}
ConsolidateUniverse ==
    { <<s_PNG_Files, c, t_a_png>> : c \in ConsolidateFolderNames }
    \cup { <<s_PNG_Files, c1, c2, t_a_png>> :
             c1 \in ConsolidateFolderNames, c2 \in ConsolidateFolderNames }
    \cup { <<s_PNG_Files, t_a_png>>, <<s_PNG_Files, s_healthy, t_B_PNG>>,
           <<s_PNG_Files, s_tumour, t_dot_png>>, <<s_PNG_Files, s_healthy, t_n_txt>> }

InitConsolidate ==
    /\ \E Fs \in SubsetsUpTo(ConsolidateUniverse, MaxPngFiles) :
          /\ files = Fs
          /\ files0 = Fs
          /\ dirs = DirsOf(Fs) \cup {<<s_PNG_Files>>}
          /\ dirs0 = DirsOf(Fs) \cup {<<s_PNG_Files>>}
    /\ TreeIdle
    /\ PipeOff

NextConsolidate ==
    \/ ConsolidateCall
    \/ ConsolidateStep

SpecConsolidate == InitConsolidate /\ [][NextConsolidate]_vars

ConsolidateReturned == call.fn = "consolidate_png_files" /\ tpc = "returned"

\* the destinations the file f was copied to
CopiesOf(f) == {c[2] : c \in {d \in copies : d[1] = f}}

\* f lies in a directory whose path has the component c
HasPart(f, c) == \E k \in 1..(Len(f) - 1) : f[k] = c

\* everything at or below PNG_Files is as it was before the call
SourceUnchanged ==
    /\ {f \in files : IsPrefix(<<s_PNG_Files>>, f)} = files0
    /\ {d \in dirs : IsPrefix(<<s_PNG_Files>>, d)} = dirs0

\* C7 (the claim as stated): when consolidate_png_files has returned, every
\* PNG file of a subdirectory of PNG_Files whose path has a component
\* 'healthy' or 'heathy' has a copy under Processed/healthy, every one whose
\* path has a component 'tumour' has a copy under Processed/tumour, no
\* destination has a component 'heathy', no file has copies under both
\* categories, and PNG_Files is unchanged (a PNG file being one whose name
\* has the suffix .png, and files whose copy raised set aside).
C7_EveryCategoryComponentCopied ==
    ConsolidateReturned =>
        /\ \A f \in {g \in found \ failed : lower(PathSuffix(basename(g))) = s_png} :
              /\ (HasPart(f, s_healthy) \/ HasPart(f, s_heathy)) =>
                    \E d \in CopiesOf(f) : d \in files /\ IsPrefix(DestBase(s_healthy), d)
              /\ HasPart(f, s_tumour) =>
                    \E d \in CopiesOf(f) : d \in files /\ IsPrefix(DestBase(s_tumour), d)
              /\ ~ /\ \E d \in CopiesOf(f) : IsPrefix(DestBase(s_healthy), d)
                   /\ \E d \in CopiesOf(f) : IsPrefix(DestBase(s_tumour), d)
        /\ \A c \in copies : ~ \E k \in 1..Len(c[2]) : c[2][k] = s_heathy
        /\ SourceUnchanged

\* the category the amended statement gives a file: 'healthy' before
\* 'tumour' before 'heathy'
PrecedenceCategory(f) ==
    IF HasPart(f, s_healthy) THEN s_healthy
    ELSE IF HasPart(f, s_tumour) THEN s_tumour
    ELSE IF HasPart(f, s_heathy) THEN s_healthy
    ELSE <<>>

\* the path of f with PNG_Files and the first of its components named
\* 'healthy', 'tumour' or 'heathy' taken out
WithoutFirstCategory(f) ==
    LET k == CHOOSE i \in 2..(Len(f) - 1) :
                 /\ f[i] \in {s_healthy, s_tumour, s_heathy}
                 /\ \A j \in 2..(i - 1) : f[j] \notin {s_healthy, s_tumour, s_heathy}
    IN  SubSeq(f, 2, k - 1) \o SubSeq(f, k + 1, Len(f))

\* C7 (amended): when consolidate_png_files has returned, every file of a
\* subdirectory of PNG_Files whose name has the suffix .png (in any case),
\* whose directory path has a category component and whose copy did not
\* raise has exactly one copy: under Processed/healthy if the path has a
\* component 'healthy', otherwise under Processed/tumour if it has a
\* component 'tumour', otherwise under Processed/healthy (it has 'heathy');
\* the copy's path is the source path with PNG_Files and only the first
\* category component taken out; nothing else is copied, and PNG_Files is
\* unchanged.
C7_CopiedByPrecedence ==
    ConsolidateReturned =>
        /\ \A f \in found \ failed :
              (lower(PathSuffix(basename(f))) = s_png /\ PrecedenceCategory(f) # <<>>) =>
                  /\ CopiesOf(f) =
                        {DestBase(PrecedenceCategory(f)) \o WithoutFirstCategory(f)}
                  /\ CopiesOf(f) \subseteq files
        /\ \A c \in copies :
              /\ c[1] \in found \ failed
              /\ lower(PathSuffix(basename(c[1]))) = s_png
              /\ PrecedenceCategory(c[1]) # <<>>
        /\ SourceUnchanged

\* a file whose path has both 'tumour' and 'heathy' was copied, under
\* Processed/tumour, and the call has returned
C7_Witness ==
    /\ ConsolidateReturned
    /\ \E c \in copies :
          /\ HasPart(c[1], s_tumour)
          /\ HasPart(c[1], s_heathy)
          /\ IsPrefix(DestBase(s_tumour), c[2])
          /\ c[2] \in files

(***************************************************************************)
(* separate_png_files.py                                                   *)
(***************************************************************************)
s_Convert_raw_data == <<"C","o","n","v","e","r","t"," ","r","a","w"," ","d","a","t","a">>
s_dotdot == <<".", ".">>
t_Other == <<"O","t","h","e","r">>
t_out == <<"o","u","t">>

\* the length of the longest common prefix of two paths
CommonLen(p, q) ==
    LET same == {k \in 0..Len(p) : k <= Len(q) /\ SubSeq(p, 1, k) = SubSeq(q, 1, k)}
    IN  CHOOSE k \in same : \A j \in same : j <= k

\* k times '..'
RECURSIVE Ups(_)
Ups(k) == IF k = 0 THEN <<>> ELSE <<s_dotdot>> \o Ups(k - 1)

\* os.path.relpath(path, start), both relative to the working directory
relpath(path, start) ==
    LET c == CommonLen(path, start)
    IN  Ups(Len(start) - c) \o SubSeq(path, c + 1, Len(path))

\* the path the operating system reaches by p: a '..' steps up
RECURSIVE Resolve(_)
Resolve(p) ==
    IF p = <<>> THEN <<>>
    ELSE LET front == Resolve(SubSeq(p, 1, Len(p) - 1))
         IN  IF p[Len(p)] = s_dotdot
             THEN SubSeq(front, 1, Len(front) - 1)
             ELSE Append(front, p[Len(p)])

\* find_png_files(root_path)
find_png_files(root_path, D, F) ==
    {f \in WalkFiles(root_path, D, F) : EndsWith(lower(basename(f)), s_png)}

\* create_destination_structure, lines 37-40: the relative path is taken
\* from the literal "Convert raw data"; source_root is not a parameter of it
DestPath(source_path, source_root, dest_base_path) ==
    dest_base_path \o relpath(source_path, <<s_Convert_raw_data>>)

\* lines 75-88, one file: makedirs of the destination's folder, copy2.
\* makedirs raises when a file lies where a folder is wanted; copy2 raises
\* when source and destination are the same file, and whenever raises is
\* TRUE; it copies into the destination when that is a directory.
separate_step(png_path, source_root, dest_root, raises, D, F) ==
    LET dest_path == Resolve(DestPath(png_path, source_root, dest_root))
        dest_dir == dirname(dest_path)
        target == IF dest_path \in D THEN join(dest_path, basename(png_path))
                  ELSE dest_path
    IN  IF Ancestors(dest_dir) \cap F # {}
        THEN [dirs |-> D, files |-> F, ok |-> FALSE, dest |-> <<>>]
        ELSE IF raises \/ target = png_path \/ target \in D
        THEN [dirs |-> D \cup Ancestors(dest_dir), files |-> F, ok |-> FALSE, dest |-> <<>>]
        ELSE [dirs |-> D \cup Ancestors(dest_dir), files |-> F \cup {target},
              ok |-> TRUE, dest |-> target]

SourceRoots == {<<s_Convert_raw_data>>, <<s_Convert_raw_data, t_A>>, <<t_Other>>}
DestRoots == {<<s_PNG_Files>>, <<t_out, s_PNG_Files>>}

\* separate_png_files(source_root, dest_root), lines 59-72
SeparateCall ==
    /\ tpc = "idle"
    /\ pc = "off"
    /\ \E source_root \in SourceRoots, dest_root \in DestRoots :
          LET png_files == find_png_files(source_root, dirs, files)
          IN  /\ call' = [fn |-> "separate_png_files", root |-> source_root,
                          dry_run |-> FALSE, dest_root |-> dest_root]
              /\ found' = png_files
              /\ todo' = png_files
              /\ tpc' = IF png_files = {} THEN "returned" ELSE "loop"
              /\ dirs' = IF png_files = {} THEN dirs ELSE dirs \cup Ancestors(dest_root)
    /\ processed' = {}
    /\ failed' = {}
    /\ copies' = {}
    /\ ret' = ZeroRet
    /\ UNCHANGED <<files, dirs0, files0>>
    /\ UNCHANGED pipeVars

\* lines 74-88: one file of the list
SeparateStep ==
    /\ tpc = "loop"
    /\ call.fn = "separate_png_files"
    /\ \E p \in NextItems, raises \in BOOLEAN :
          LET r == separate_step(p, call.root, call.dest_root, raises, dirs, files)
          IN  /\ dirs' = r.dirs
              /\ files' = r.files
              /\ copies' = IF r.ok THEN copies \cup {<<p, r.dest>>} ELSE copies
              /\ failed' = IF r.ok THEN failed ELSE failed \cup {p}
              /\ ret' = IF r.ok THEN [ret EXCEPT !.success_count = @ + 1]
                        ELSE [ret EXCEPT !.error_count = @ + 1]
              /\ todo' = todo \ {p}
              /\ processed' = processed \cup {p}
              /\ tpc' = IF todo \ {p} = {} THEN "returned" ELSE "loop"
    /\ UNCHANGED <<call, found, dirs0, files0>>
    /\ UNCHANGED pipeVars

SeparateUniverse ==
    { <<s_Convert_raw_data, t_a_png>>, <<s_Convert_raw_data, t_A, t_a_png>>,
      <<s_Convert_raw_data, t_A, t_B_PNG>>, <<s_Convert_raw_data, t_A, t_n_txt>>,
      <<t_Other, t_a_png>>, <<t_Other, t_A, t_a_png>>,
      <<s_PNG_Files, t_a_png>>, <<s_PNG_Files, t_A>> }

InitSeparate ==
    /\ \E Fs \in SubsetsUpTo(SeparateUniverse, MaxPngFiles) :
          /\ files = Fs
          /\ files0 = Fs
          /\ dirs = DirsOf(Fs)
          /\ dirs0 = DirsOf(Fs)
    /\ TreeIdle
    /\ PipeOff

NextSeparate ==
    \/ SeparateCall
    \/ SeparateStep

SpecSeparate == InitSeparate /\ [][NextSeparate]_vars

\* C11 (the claim as stated): when separate_png_files(source_root,
\* dest_root) has returned, every PNG file it found at source_root/<rel> and
\* did not report an error for is at dest_root/<rel>, and every file and
\* folder that was not there before the call lies at or below dest_root, or
\* is a folder on the way to dest_root.
C11_StructureKept ==
    (call.fn = "separate_png_files" /\ tpc = "returned") =>
        /\ \A f \in found \ failed :
              (call.dest_root \o relative_to(f, call.root)) \in files
        /\ \A f \in files \ files0 : IsPrefix(call.dest_root, f)
        /\ \A d \in dirs \ dirs0 :
              IsPrefix(call.dest_root, d) \/ d \in Ancestors(call.dest_root)

(***************************************************************************)
(* filter_1858_files.py                                                    *)
(***************************************************************************)
s_1858 == <<"1","8","5","8">>
s_Processed_1858 == <<"P","r","o","c","e","s","s","e","d","_","1","8","5","8">>
t_k1858_png == <<"k","1","8","5","8",".","p","n","g">>
t_K1858_PNG == <<"K","1","8","5","8",".","P","N","G">>
t_n1858_txt == <<"n","1","8","5","8",".","t","x","t">>
t_old_png == <<"o","l","d","1","8","5","8",".","p","n","g">>

\* line 57 with the test left out: every PNG file is taken
Has1858Always(png_file) == TRUE

\* line 57: "1858" in png_file
Has1858(png_file) == Contains(png_file, s_1858)

\* os.walk: what scanning the directory root lists
ListDirs(root, D) == {d \in D : Len(d) = Len(root) + 1 /\ dirname(d) = root}
ListFiles(root, F) == {f \in F : Len(f) = Len(root) + 1 /\ dirname(f) = root}

FilterSources == {<<s_Processed>>, <<s_Processed, s_healthy>>, <<t_Other>>}
FilterTargets == {<<s_Processed_1858>>, <<s_Processed>>, <<s_Processed, t_A>>}

\* filter_files_with_1858(source_dir, target_dir), lines 21-36: the early
\* return for a missing source, the removal of an existing target (rmtree
\* raises when it is a file), makedirs, and the start of the walk.  todo is
\* the stack of directories os.walk still has to scan.
FilterCall ==
    /\ tpc = "idle"
    /\ pc = "off"
    /\ \E source_dir \in FilterSources, target_dir \in FilterTargets :
          /\ call' = [fn |-> "filter_files_with_1858", root |-> source_dir,
                      dry_run |-> FALSE, target_dir |-> target_dir]
          /\ IF ~exists(source_dir, dirs, files)
             THEN /\ tpc' = "returned"
                  /\ todo' = <<>>
                  /\ UNCHANGED <<dirs, files>>
             ELSE IF target_dir \in files
             THEN /\ tpc' = "crashed"
                  /\ todo' = <<>>
                  /\ UNCHANGED <<dirs, files>>
             ELSE /\ tpc' = "loop"
                  /\ todo' = <<source_dir>>
                  /\ dirs' = rmtree_dirs(target_dir, dirs) \cup Ancestors(target_dir)
                  /\ files' = rmtree_files(target_dir, files)
    /\ found' = {}
    /\ processed' = {}
    /\ failed' = {}
    /\ copies' = {}
    /\ ret' = ZeroRet
    /\ UNCHANGED <<dirs0, files0>>
    /\ UNCHANGED pipeVars

\* lines 39-81 for the directory on top of the stack, and lines 84-93 when
\* it was the last: the directory is scanned, its folder is made in the
\* target, its PNG files with 1858 in the name are copied (those in bad
\* raise, which is caught), and its subdirectories are put on the stack.
\* Line 87 divides by the number of PNG files seen and raises when it is 0.
FilterDirStep ==
    /\ tpc = "loop"
    /\ call.fn = "filter_files_with_1858"
    /\ LET root == Head(todo)
           scanned == root \in dirs
           sub == IF scanned THEN ListDirs(root, dirs) ELSE {}
           png_files == IF scanned
                        THEN {f \in ListFiles(root, files) : IsPngName(basename(f))}
                        ELSE {}
           target_subdir == call.target_dir \o relative_to(root, call.root)
           chosen == {f \in png_files : Has1858(basename(f))}
       IN  \E bad \in SUBSET chosen, o \in Orders(sub) :
              LET newc == {<<f, join(target_subdir, basename(f))>> : f \in chosen \ bad}
                  stack == o \o Tail(todo)
              IN  /\ dirs' = IF scanned THEN dirs \cup Ancestors(target_subdir) ELSE dirs
                  /\ files' = files \cup {c[2] : c \in newc}
                  /\ copies' = copies \cup newc
                  /\ failed' = failed \cup bad
                  /\ found' = found \cup png_files
                  /\ processed' = processed \cup {root}
                  /\ ret' = [ret EXCEPT !.success_count = @ + Cardinality(newc),
                                        !.found_count = @ + Cardinality(png_files)]
                  /\ todo' = stack
                  /\ tpc' = IF stack # <<>> THEN "loop"
                            ELSE IF found \cup png_files = {} THEN "crashed"
                            ELSE "returned"
    /\ UNCHANGED <<call, dirs0, files0>>
    /\ UNCHANGED pipeVars

FilterUniverse ==
    { <<s_Processed, t_k1858_png>>, <<s_Processed, s_healthy, t_k1858_png>>,
      <<s_Processed, s_healthy, t_a_png>>, <<s_Processed, s_healthy, t_n1858_txt>>,
      <<s_Processed, s_tumour, t_A, t_K1858_PNG>>, <<s_Processed, t_A>>,
      <<s_Processed_1858, t_old_png>>, <<s_Processed_1858, s_healthy, t_a_png>> }

InitFilter ==
    /\ \E Fs \in SubsetsUpTo(FilterUniverse, MaxPngFiles) :
          /\ files = Fs
          /\ files0 = Fs
          /\ dirs = DirsOf(Fs)
          /\ dirs0 = DirsOf(Fs)
    /\ call = NoCall
    /\ tpc = "idle"
    /\ found = {}
    /\ todo = <<>>
    /\ processed = {}
    /\ failed = {}
    /\ copies = {}
    /\ ret = ZeroRet
    /\ PipeOff

NextFilter ==
    \/ FilterCall
    \/ FilterDirStep

SpecFilter == InitFilter /\ [][NextFilter]_vars

FilterCompleted ==
    call.fn = "filter_files_with_1858" /\ tpc = "returned" /\ failed = {}

\* the files the statement wants in the target: for every PNG file of the
\* source, as it was before the call, with 1858 in its name, the same
\* relative path below the target
Wanted1858 ==
    {call.target_dir \o relative_to(f, call.root) :
        f \in {g \in files0 : /\ Below(g, call.root)
                              /\ IsPngName(basename(g))
                              /\ Contains(basename(g), s_1858)}}

TargetIsExactlyWanted == {f \in files : Below(f, call.target_dir)} = Wanted1858

\* C12 (the claim as stated): when filter_files_with_1858(source, target)
\* has returned and no copy raised, the files below target are exactly the
\* PNG files of source with 1858 in the name, at the same relative paths;
\* so nothing else that was in target before is left.
C12_TargetExactly1858 == FilterCompleted => TargetIsExactlyWanted

\* C12 (amended): the same, for a source that exists and a target that
\* neither lies in the source nor holds it.
C12_TargetExactly1858WhenApart ==
    (/\ FilterCompleted
     /\ exists(call.root, dirs0, files0)
     /\ ~IsPrefix(call.root, call.target_dir)
     /\ ~IsPrefix(call.target_dir, call.root)) => TargetIsExactlyWanted

\* the call has returned for a source and a target apart from each other, a
\* file was copied, and a file that was in the target before is gone
C12_Witness ==
    /\ FilterCompleted
    /\ exists(call.root, dirs0, files0)
    /\ ~IsPrefix(call.root, call.target_dir)
    /\ ~IsPrefix(call.target_dir, call.root)
    /\ \E c \in copies : c[2] \in files
    /\ \E f \in files0 : Below(f, call.target_dir) /\ f \notin files

(***************************************************************************)
(* divide_images_generic.py, divide_images_1858.py: divide_image           *)
(***************************************************************************)
\* the side of the image the pieces are cut from, of a piece, and the
\* number of rows and of columns
image_side == 128
piece_size == 32
grid == 4

s_piece == <<"_","p","i","e","c","e","_">>
t_k1858 == <<"k","1","8","5","8">>
t_a == <<"a">>

\* f"{n:02d}"
Format02d(n) == IF n < 10 THEN <<"0">> \o Dec(n) ELSE Dec(n)

\* the box with rows and columns exchanged
BoxTransposed(row, col) ==
    LET left == row * piece_size
        top == col * piece_size
    IN  <<left, top, left + piece_size, top + piece_size>>

\* lines 31-34: (left, top, right, bottom)
Box(row, col) ==
    LET left == col * piece_size
        top == row * piece_size
        right == left + piece_size
        bottom == top + piece_size
    IN  <<left, top, right, bottom>>

\* line 36
piece_filename(base_filename, row, col) ==
    base_filename \o s_piece \o Format02d(row * grid + col + 1) \o s_png

\* lines 22-23: the size of the image after the resize
Resized(size) == IF size # <<image_side, image_side>> THEN <<image_side, image_side>> ELSE size

ImageSizes == {<<128, 128>>, <<64, 64>>, <<128, 64>>}
ImageModes == {"RGB", "L"}
DivideScripts == {"divide_images_generic", "divide_images_1858"}

\* divide_image(image_path, output_dir, base_filename), lines 20-28: the
\* image is opened, resized and converted, the output directory is made.
\* Image.open raises on a file that is no image, makedirs when a file lies
\* at output_dir; both end the call with 0.
DivideCall ==
    /\ tpc = "idle"
    /\ pc = "off"
    /\ \E script \in DivideScripts, size \in ImageSizes, mode \in ImageModes,
          base_filename \in {t_a, t_k1858}, decodes \in BOOLEAN :
          LET ok == decodes /\ <<t_out>> \notin files
          IN  /\ call' = [fn |-> "divide_image", script |-> script, root |-> <<t_out>>,
                          dry_run |-> FALSE, base_filename |-> base_filename,
                          size |-> Resized(size),
                          mode |-> IF mode # "RGB" THEN "RGB" ELSE mode,
                          row |-> 0, col |-> 0]
              /\ dirs' = IF ok THEN dirs \cup {<<t_out>>} ELSE dirs
              /\ tpc' = IF ok THEN "loop" ELSE "returned"
              /\ failed' = IF ok THEN {} ELSE {base_filename}
    /\ found' = {}
    /\ todo' = {}
    /\ processed' = {}
    /\ copies' = {}
    /\ ret' = ZeroRet
    /\ UNCHANGED <<files, dirs0, files0>>
    /\ UNCHANGED pipeVars

\* lines 29-42: one turn of the inner loop, and the return after the last.
\* copies holds the pieces saved: number, box, path.  ret.success_count is
\* pieces_created (the length of the list pieces in divide_images_1858),
\* ret.found_count the value returned.
DividePiece ==
    /\ tpc = "loop"
    /\ call.fn = "divide_image"
    /\ \E raises \in BOOLEAN :
          LET row == call.row
              col == call.col
              path == join(call.root, piece_filename(call.base_filename, row, col))
              last == row = grid - 1 /\ col = grid - 1
          IN  IF raises
              THEN /\ tpc' = "returned"
                   /\ failed' = {call.base_filename}
                   /\ ret' = [ret EXCEPT !.found_count = 0]
                   /\ UNCHANGED <<call, files, copies>>
              ELSE /\ files' = files \cup {path}
                   /\ copies' = copies \cup {<<row * grid + col + 1, Box(row, col), path>>}
                   /\ call' = IF last THEN call
                              ELSE IF col = grid - 1
                              THEN [call EXCEPT !.row = row + 1, !.col = 0]
                              ELSE [call EXCEPT !.col = col + 1]
                   /\ ret' = [ret EXCEPT !.success_count = @ + 1,
                                         !.found_count = IF last THEN ret.success_count + 1
                                                         ELSE 0]
                   /\ tpc' = IF last THEN "returned" ELSE "loop"
                   /\ UNCHANGED failed
    /\ UNCHANGED <<dirs, dirs0, files0, found, todo, processed>>
    /\ UNCHANGED pipeVars

InitDivide ==
    /\ \E before \in {"nothing", "folder", "file"} :
          /\ dirs = IF before = "folder" THEN {<<t_out>>} ELSE {}
          /\ files = IF before = "file" THEN {<<t_out>>} ELSE {}
    /\ dirs0 = dirs
    /\ files0 = files
    /\ TreeIdle
    /\ PipeOff

NextDivide ==
    \/ DivideCall
    \/ DividePiece

SpecDivide == InitDivide /\ [][NextDivide]_vars

\* the pixel (x, y) lies in the box
InBox(x, y, box) == box[1] <= x /\ x < box[3] /\ box[2] <= y /\ y < box[4]

\* two boxes share no pixel
BoxesDisjoint(b, c) == b[3] <= c[1] \/ c[3] <= b[1] \/ b[4] <= c[2] \/ c[4] <= b[2]

\* C13: every piece divide_image has saved is, for some row and col in 0..3,
\* the piece numbered row*4+col+1 with the box (col*32, row*32, col*32+32,
\* row*32+32), saved as <base>_piece_<two-digit number>.png; the call returns
\* 0 when an error occurred and 16 otherwise; and when it returns 16 the
\* image is 128x128, there are 16 pieces with the numbers 1..16, each once,
\* their boxes are pairwise disjoint and every pixel of the image lies in one.
C13_SixteenPieces ==
    call.fn = "divide_image" =>
        /\ \A p \in copies :
              \E row \in 0..3, col \in 0..3 :
                 /\ p[1] = row * 4 + col + 1
                 /\ p[2] = <<col * 32, row * 32, col * 32 + 32, row * 32 + 32>>
                 /\ p[3] = join(call.root, call.base_filename \o s_piece
                                             \o Format02d(p[1]) \o s_png)
                 /\ p[3] \in files
        /\ tpc = "returned" =>
              /\ ret.found_count = IF failed = {} THEN 16 ELSE 0
              /\ ret.found_count = 16 =>
                    /\ call.size = <<128, 128>>
                    /\ Cardinality(copies) = 16
                    /\ {p[1] : p \in copies} = 1..16
                    /\ \A p, q \in copies : p # q => BoxesDisjoint(p[2], q[2])
                    /\ \A x \in 0..127, y \in 0..127 :
                          \E p \in copies : InBox(x, y, p[2])

\* divide_image of divide_images_1858.py has saved 16 pieces and returned 16
C13_Witness ==
    /\ call.fn = "divide_image"
    /\ tpc = "returned"
    /\ ret.found_count = 16
    /\ Cardinality(copies) = 16
    /\ call.script = "divide_images_1858"

(***************************************************************************)
(* rename_folders.py, called on PNG_Files as main() does                   *)
(***************************************************************************)
t_Healthy == <<"H","e","a","l","t","h","y">>
t_A_HEALTHY == <<"A","_","H","E","A","L","T","H","Y">>
t_Y_Tumour == <<"Y","_","T","u","m","o","u","r">>

\* rename_folders(root_path="PNG_Files", dry_run)
RenameCall ==
    /\ tpc = "idle"
    /\ pc = "off"
    /\ \E dry_run \in BOOLEAN : Enter("rename_folders", <<s_PNG_Files>>, dry_run)
    /\ UNCHANGED <<fsVars, pipeVars>>

RenameUniverse ==
    { <<s_PNG_Files, t_X_Tumor>>, <<s_PNG_Files, t_X_Tumor, t_Healthy>>,
      <<s_PNG_Files, t_X_Tumor, s_healthy>>, <<s_PNG_Files, t_Y_Tumour>>,
      <<s_PNG_Files, s_tumour>>, <<s_PNG_Files, t_Healthy>>,
      <<s_PNG_Files, t_A_HEALTHY>>, <<s_PNG_Files, t_A, t_Healthy>>,
      <<s_PNG_Files, s_Tumor>> }

InitRename ==
    /\ \E T \in SubsetsUpTo(RenameUniverse, MaxTreeNodes - 1) :
          /\ dirs = {<<s_PNG_Files>>} \cup UNION {Ancestors(d) : d \in T}
          /\ dirs0 = {<<s_PNG_Files>>} \cup UNION {Ancestors(d) : d \in T}
    /\ \E Fs \in SUBSET {<<s_PNG_Files, t_X_Tumor, t_a_png>>} :
          /\ Fs \subseteq {f \in Fs : dirname(f) \in dirs}
          /\ files = Fs
          /\ files0 = Fs
    /\ TreeIdle
    /\ PipeOff

NextRename ==
    \/ RenameCall
    \/ RenameStep
    \/ StepRaises

SpecRename == InitRename /\ [][NextRename]_vars

\* C14 (the claim as stated): when rename_folders(root, dry_run=False) has
\* returned with error_count 0, every folder below root whose name contains
\* 'healthy' in any letter case is named 'healthy', and every folder whose
\* name contains an underscore and 'tumor' or 'tumour' in any letter case is
\* named 'tumour', whatever its depth.
C14_NamesStandardised ==
    (/\ call.fn = "rename_folders"
     /\ ~call.dry_run
     /\ tpc = "returned"
     /\ ret.error_count = 0) =>
        \A d \in {e \in dirs : Below(e, call.root)} :
           /\ Contains(lower(basename(d)), s_healthy) => basename(d) = s_healthy
           /\ (/\ Contains(basename(d), s_underscore)
               /\ \/ Contains(lower(basename(d)), s_tumor)
                  \/ Contains(lower(basename(d)), s_tumour)) => basename(d) = s_tumour

(***************************************************************************)
(* Two invocations at once on one tree: move_reflection_coefficient.py and *)
(* flatten_crc_structure.py, one system call per step.  In this part call  *)
(* maps each process to its frame, copies holds for every file the triple  *)
(* <<the path it had at the start, the path it has now, the process that   *)
(* put it there (0: nobody)>>, and failed holds a record for every file    *)
(* that was overwritten.                                                   *)
(***************************************************************************)
Procs == {1, 2}

s_images == <<"i","m","a","g","e","s">>
t_s1 == <<"s","1">>
t_s2 == <<"s","2">>

StartFrame ==
    [fn |-> "none", pcs |-> "start", folders |-> <<>>, cur |-> <<>>, flist |-> <<>>,
     original |-> <<>>, dest |-> <<>>, counter |-> 1, target_dir |-> <<>>,
     bases |-> <<>>, clean |-> <<>>, success |-> 0, errors |-> 0]

\* os.walk, top down: the orders in which it can hand out the folders S
TopDownOrders(S) ==
    {o \in Orders(S) : \A i, j \in 1..Cardinality(S) : Below(o[j], o[i]) => i < j}

\* os.walk, top down: the orders in which it can hand out the files S, the
\* files of a folder before the files of the folders below it
WalkFileOrders(S) ==
    {o \in Orders(S) :
        \A i, j \in 1..Cardinality(S) : Below(dirname(o[j]), dirname(o[i])) => i < j}

\* while os.path.exists(dest_path), with the test always false
DestTakenNever(dest_path, D, F) == FALSE

\* lines 77 / 57: os.path.exists(dest_path), target_file.exists()
DestTaken(dest_path, D, F) == exists(dest_path, D, F)

\* move_reflection_coefficient.py, lines 78-79: f"{name}_{counter}{ext}"
NumberedDest(original_dest, counter) ==
    join(dirname(original_dest),
         SplitextRoot(basename(original_dest)) \o s_underscore \o Dec(counter)
            \o SplitextExt(basename(original_dest)))

\* flatten_crc_structure.py, lines 58-59: target_dir / f"{stem}_{counter}{suffix}"
NumberedTarget(original_target, counter) ==
    LET name == basename(original_target)
        suffix == PathSuffix(name)
        stem == SubSeq(name, 1, Len(name) - Len(suffix))
    IN  join(dirname(original_target), stem \o s_underscore \o Dec(counter) \o suffix)

\* the path the file at cur had at the start
OriginOf(cur, C) == (CHOOSE c \in C : c[2] = cur)[1]

\* shutil.move(src, dest) by process p: os.rename, which replaces a file at
\* dest; into dest when dest is a directory; raises when src is gone, when
\* the folder of dest is gone, or when dest is a directory that already has
\* an entry of that name
MoveFile(src, dest, p, D, F, C) ==
    LET real_dst == IF dest \in D THEN join(dest, basename(src)) ELSE dest
    IN  IF \/ src \notin F
           \/ ~(dirname(real_dst) = <<>> \/ dirname(real_dst) \in D)
           \/ (dest \in D /\ exists(real_dst, D, F))
        THEN [ok |-> FALSE, files |-> F, copies |-> C, lost |-> {}]
        ELSE [ok |-> TRUE,
              files |-> (F \ {src}) \cup {real_dst},
              copies |-> {c \in C : c[2] # src /\ c[2] # real_dst}
                            \cup {<<OriginOf(src, C), real_dst, p>>},
              lost |-> {[victim |-> c[1], by |-> p, put_by |-> c[3],
                         source |-> OriginOf(src, C), dest |-> real_dst] :
                           c \in {d \in C : d[2] = real_dst /\ real_dst # src}}]

RaceUnchanged == UNCHANGED <<dirs0, files0, tpc, found, todo, processed, ret, pipeVars>>

\* move_files_from_reflection_coefficient("PNG_Files", dry_run=False), lines
\* 37-47: the list of folders
MoveStart(p) ==
    /\ call[p].pcs = "start"
    /\ call[p].fn = "move_files_from_reflection_coefficient"
    /\ \E o \in TopDownOrders(find_reflection_coefficient_folders(<<s_PNG_Files>>, dirs)) :
          call' = [call EXCEPT ![p].folders = o,
                               ![p].pcs = IF o = <<>> THEN "done" ELSE "folder"]
    /\ UNCHANGED <<dirs, files, copies, failed>>
    /\ RaceUnchanged

\* lines 49-63: the next folder of the list and the files below it
MoveFolder(p) ==
    /\ call[p].pcs = "folder"
    /\ call[p].fn = "move_files_from_reflection_coefficient"
    /\ IF call[p].folders = <<>>
       THEN call' = [call EXCEPT ![p].pcs = "done"]
       ELSE LET folder_path == Head(call[p].folders)
            IN  \E o \in WalkFileOrders(WalkFiles(folder_path, dirs, files)) :
                   call' = IF o = <<>>
                           THEN [call EXCEPT ![p].folders = Tail(@)]
                           ELSE [call EXCEPT ![p].cur = folder_path,
                                             ![p].flist = o,
                                             ![p].original = join(dirname(folder_path),
                                                                  basename(Head(o))),
                                             ![p].dest = join(dirname(folder_path),
                                                              basename(Head(o))),
                                             ![p].counter = 1,
                                             ![p].pcs = "check"]
    /\ UNCHANGED <<dirs, files, copies, failed>>
    /\ RaceUnchanged

\* lines 77-80: one test of the while loop
MoveCheck(p) ==
    /\ call[p].pcs = "check"
    /\ call[p].fn = "move_files_from_reflection_coefficient"
    /\ call' = IF DestTaken(call[p].dest, dirs, files)
               THEN [call EXCEPT ![p].dest = NumberedDest(call[p].original, call[p].counter),
                                 ![p].counter = @ + 1]
               ELSE [call EXCEPT ![p].pcs = "move"]
    /\ UNCHANGED <<dirs, files, copies, failed>>
    /\ RaceUnchanged

\* line 82, and lines 96-100 when it raises: the folder is given up
MoveMove(p) ==
    /\ call[p].pcs = "move"
    /\ call[p].fn = "move_files_from_reflection_coefficient"
    /\ LET r == MoveFile(Head(call[p].flist), call[p].dest, p, dirs, files, copies)
           rest == Tail(call[p].flist)
           parent_dir == dirname(call[p].cur)
       IN  /\ files' = r.files
           /\ copies' = r.copies
           /\ failed' = failed \cup r.lost
           /\ call' = IF ~r.ok
                      THEN [call EXCEPT ![p].errors = @ + 1, ![p].folders = Tail(@),
                                        ![p].pcs = "folder"]
                      ELSE IF rest = <<>>
                      THEN [call EXCEPT ![p].flist = rest, ![p].pcs = "rmdir"]
                      ELSE [call EXCEPT ![p].flist = rest,
                                        ![p].original = join(parent_dir, basename(Head(rest))),
                                        ![p].dest = join(parent_dir, basename(Head(rest))),
                                        ![p].counter = 1,
                                        ![p].pcs = "check"]
    /\ UNCHANGED dirs
    /\ RaceUnchanged

\* lines 86-88: os.rmdir raises when the folder is gone or not empty
MoveRmdir(p) ==
    /\ call[p].pcs = "rmdir"
    /\ call[p].fn = "move_files_from_reflection_coefficient"
    /\ LET folder_path == call[p].cur
           ok == /\ folder_path \in dirs
                 /\ ~\E q \in dirs \cup files : Below(q, folder_path)
       IN  /\ dirs' = IF ok THEN dirs \ {folder_path} ELSE dirs
           /\ call' = [call EXCEPT ![p].success = IF ok THEN @ + 1 ELSE @,
                                   ![p].errors = IF ok THEN @ ELSE @ + 1,
                                   ![p].folders = Tail(@),
                                   ![p].pcs = "folder"]
    /\ UNCHANGED <<files, copies, failed>>
    /\ RaceUnchanged

\* os.walk, bottom up: the orders in which it can hand out the folders S
BottomUpOrders(S) ==
    {o \in Orders(S) : \A i, j \in 1..Cardinality(S) : Below(o[i], o[j]) => i < j}

\* flatten_crc_structure, line 40
IsDuplicateCrc(path_parts) ==
    /\ Len(path_parts) >= 3
    /\ path_parts[1] = path_parts[2]
    /\ path_parts[3] = s_images

\* flatten_crc_structure(), lines 14-20 and 73: the healthy directory first
FlattenStart(p) ==
    /\ call[p].pcs = "start"
    /\ call[p].fn = "flatten_crc_structure"
    /\ call' = IF ~exists(<<s_Processed>>, dirs, files)
               THEN [call EXCEPT ![p].pcs = "done"]
               ELSE [call EXCEPT ![p].bases = <<DestBase(s_healthy), DestBase(s_tumour)>>,
                                 ![p].folders = <<DestBase(s_healthy)>>,
                                 ![p].pcs = "walk"]
    /\ UNCHANGED <<dirs, files, copies, failed>>
    /\ RaceUnchanged

\* flatten_directory, lines 29-40: os.walk scans the next directory; after
\* the last one of the tumour directory the cleanup begins
FlattenWalk(p) ==
    /\ call[p].pcs = "walk"
    /\ call[p].fn = "flatten_crc_structure"
    /\ IF call[p].folders = <<>>
       THEN call' = IF Tail(call[p].bases) = <<>>
                    THEN [call EXCEPT ![p].bases = <<DestBase(s_healthy), DestBase(s_tumour)>>,
                                      ![p].pcs = "cleanstart"]
                    ELSE [call EXCEPT ![p].bases = Tail(@),
                                      ![p].folders = <<Head(Tail(call[p].bases))>>]
       ELSE LET root_path == Head(call[p].folders)
                base_dir == Head(call[p].bases)
                scanned == root_path \in dirs
                sub == IF scanned THEN ListDirs(root_path, dirs) ELSE {}
                png == IF scanned
                       THEN {f \in ListFiles(root_path, files) : IsPngName(basename(f))}
                       ELSE {}
                hit == /\ scanned
                       /\ root_path # base_dir
                       /\ IsDuplicateCrc(relative_to(root_path, base_dir))
            IN  \E o \in Orders(sub), fl \in Orders(png) :
                   call' = IF hit
                           THEN [call EXCEPT ![p].folders = o \o Tail(@),
                                             ![p].cur = root_path,
                                             ![p].target_dir =
                                                 join(base_dir, relative_to(root_path, base_dir)[1]),
                                             ![p].flist = fl,
                                             ![p].pcs = "mkdir"]
                           ELSE [call EXCEPT ![p].folders = o \o Tail(@)]
    /\ UNCHANGED <<dirs, files, copies, failed>>
    /\ RaceUnchanged

\* line 46: target_dir.mkdir(parents=True, exist_ok=True); it raises when a
\* file has that name, and nothing catches it
FlattenMkdir(p) ==
    /\ call[p].pcs = "mkdir"
    /\ call[p].fn = "flatten_crc_structure"
    /\ LET target_dir == call[p].target_dir
           fl == call[p].flist
       IN  IF Ancestors(target_dir) \cap files # {}
           THEN /\ call' = [call EXCEPT ![p].pcs = "crashed"]
                /\ UNCHANGED dirs
           ELSE /\ dirs' = dirs \cup Ancestors(target_dir)
                /\ call' = IF fl = <<>>
                           THEN [call EXCEPT ![p].pcs = "walk"]
                           ELSE [call EXCEPT ![p].original = join(target_dir, basename(Head(fl))),
                                             ![p].dest = join(target_dir, basename(Head(fl))),
                                             ![p].counter = 1,
                                             ![p].pcs = "check"]
    /\ UNCHANGED <<files, copies, failed>>
    /\ RaceUnchanged

\* lines 57-60: one test of the while loop
FlattenCheck(p) ==
    /\ call[p].pcs = "check"
    /\ call[p].fn = "flatten_crc_structure"
    /\ call' = IF DestTaken(call[p].dest, dirs, files)
               THEN [call EXCEPT ![p].dest = NumberedTarget(call[p].original, call[p].counter),
                                 ![p].counter = @ + 1]
               ELSE [call EXCEPT ![p].pcs = "move"]
    /\ UNCHANGED <<dirs, files, copies, failed>>
    /\ RaceUnchanged

\* lines 62-67: the move; when it raises the next file is taken
FlattenMove(p) ==
    /\ call[p].pcs = "move"
    /\ call[p].fn = "flatten_crc_structure"
    /\ LET r == MoveFile(Head(call[p].flist), call[p].dest, p, dirs, files, copies)
           rest == Tail(call[p].flist)
           target_dir == call[p].target_dir
       IN  /\ files' = r.files
           /\ copies' = r.copies
           /\ failed' = failed \cup r.lost
           /\ call' = IF rest = <<>>
                      THEN [call EXCEPT ![p].flist = rest,
                                        ![p].success = IF r.ok THEN @ + 1 ELSE @,
                                        ![p].errors = IF r.ok THEN @ ELSE @ + 1,
                                        ![p].pcs = "walk"]
                      ELSE [call EXCEPT ![p].flist = rest,
                                        ![p].success = IF r.ok THEN @ + 1 ELSE @,
                                        ![p].errors = IF r.ok THEN @ ELSE @ + 1,
                                        ![p].original = join(target_dir, basename(Head(rest))),
                                        ![p].dest = join(target_dir, basename(Head(rest))),
                                        ![p].counter = 1,
                                        ![p].pcs = "check"]
    /\ UNCHANGED dirs
    /\ RaceUnchanged

\* cleanup_empty_dirs(base_dir), line 90: the walk, bottom up
FlattenCleanStart(p) ==
    /\ call[p].pcs = "cleanstart"
    /\ call[p].fn = "flatten_crc_structure"
    /\ \E o \in BottomUpOrders(WalkDirs(Head(call[p].bases), dirs)) :
          call' = [call EXCEPT ![p].clean = o, ![p].pcs = "clean"]
    /\ UNCHANGED <<dirs, files, copies, failed>>
    /\ RaceUnchanged

\* lines 91-103: an empty directory is removed; an OSError is passed over
FlattenClean(p) ==
    /\ call[p].pcs = "clean"
    /\ call[p].fn = "flatten_crc_structure"
    /\ IF call[p].clean = <<>>
       THEN /\ call' = IF Tail(call[p].bases) = <<>>
                       THEN [call EXCEPT ![p].pcs = "done"]
                       ELSE [call EXCEPT ![p].bases = Tail(@), ![p].pcs = "cleanstart"]
            /\ UNCHANGED dirs
       ELSE LET root_path == Head(call[p].clean)
                empty == /\ root_path \in dirs
                         /\ ~\E q \in dirs \cup files : Below(q, root_path)
            IN  /\ dirs' = IF empty THEN dirs \ {root_path} ELSE dirs
                /\ call' = [call EXCEPT ![p].clean = Tail(@)]
    /\ UNCHANGED <<files, copies, failed>>
    /\ RaceUnchanged

RaceFns == {"move_files_from_reflection_coefficient", "flatten_crc_structure"}

RaceUniverse(fn) ==
    IF fn = "move_files_from_reflection_coefficient"
    THEN { <<s_PNG_Files, s_RC, t_s1, t_a_png>>, <<s_PNG_Files, s_RC, t_s2, t_a_png>>,
           <<s_PNG_Files, s_RC, t_a_png>>, <<s_PNG_Files, t_a_png>> }
    ELSE { <<s_Processed, s_healthy, t_A, t_A, s_images, t_s1, t_a_png>>,
           <<s_Processed, s_healthy, t_A, t_A, s_images, t_s2, t_a_png>>,
           <<s_Processed, s_healthy, t_A, t_a_png>>,
           <<s_Processed, s_tumour, t_A, t_A, s_images, t_a_png>> }

InitRace ==
    /\ \E fn \in RaceFns :
          /\ call = [p \in Procs |-> [StartFrame EXCEPT !.fn = fn]]
          /\ \E Fs \in SubsetsUpTo(RaceUniverse(fn), MaxPngFiles) :
                /\ files = Fs
                /\ files0 = Fs
                /\ dirs = DirsOf(Fs)
                /\ dirs0 = DirsOf(Fs)
                /\ copies = {<<f, f, 0>> : f \in Fs}
    /\ failed = {}
    /\ tpc = "race"
    /\ found = {}
    /\ todo = {}
    /\ processed = {}
    /\ ret = ZeroRet
    /\ PipeOff

NextRace ==
    \/ \E p \in Procs : MoveStart(p)
    \/ \E p \in Procs : MoveFolder(p)
    \/ \E p \in Procs : MoveCheck(p)
    \/ \E p \in Procs : MoveMove(p)
    \/ \E p \in Procs : MoveRmdir(p)
    \/ \E p \in Procs : FlattenStart(p)
    \/ \E p \in Procs : FlattenWalk(p)
    \/ \E p \in Procs : FlattenMkdir(p)
    \/ \E p \in Procs : FlattenCheck(p)
    \/ \E p \in Procs : FlattenMove(p)
    \/ \E p \in Procs : FlattenCleanStart(p)
    \/ \E p \in Procs : FlattenClean(p)

SpecRace == InitRace /\ [][NextRace]_vars

\* C15: with two invocations at once, a file is lost only in the way the
\* claim names: every file that was overwritten had been moved to that name
\* by the other invocation, and was overwritten by the move of a different
\* source file whose mover had found the name free; every file of the start
\* that was not overwritten is still in the tree.  (That such a loss is
\* reached is C15_Witness.)
C15_LossOnlyByRace ==
    tpc = "race" =>
        /\ \A l \in failed :
              /\ l.put_by \in Procs
              /\ l.put_by # l.by
              /\ l.source # l.victim
        /\ {c[2] : c \in copies} = files
        /\ {c[1] : c \in copies} \cup {l.victim : l \in failed} = files0

\* two different source files were moved to the same name by the two
\* invocations and one of them is in the tree no more
C15_Witness ==
    /\ tpc = "race"
    /\ \E l \in failed :
          /\ l.source # l.victim
          /\ l.put_by # l.by
          /\ l.victim \notin {c[1] : c \in copies}
          /\ \E c \in copies : c[1] = l.source /\ c[2] = l.dest

(***************************************************************************)
(* The directories the scripts of SCRIPTS read their images from and write *)
(* to, each from the defaults of the script's own file.                    *)
(***************************************************************************)
s_Processed_1858_filtered == <<"P","r","o","c","e","s","s","e","d","_","1","8","5","8","_","f","i","l","t","e","r","e","d">>
s_Processed_1858_filtered_divided == <<"P","r","o","c","e","s","s","e","d","_","1","8","5","8","_","f","i","l","t","e","r","e","d","_","d","i","v","i","d","e","d">>

\* the raw source tree
RawTree == s_Convert_raw_data

reads_from(i) ==
    CASE SCRIPTS[i].script = n_convert_tif_to_png -> {s_Convert_raw_data}
      [] SCRIPTS[i].script = n_separate_png_files -> {s_Convert_raw_data}
      [] SCRIPTS[i].script = n_move_reflection_coefficient -> {s_PNG_Files}
      [] SCRIPTS[i].script = n_delete_post_files -> {s_PNG_Files}
      [] SCRIPTS[i].script = n_consolidate_png_files -> {s_PNG_Files}
      [] SCRIPTS[i].script = n_flatten_crc_structure -> {s_Processed}
      [] SCRIPTS[i].script = n_count_png_files -> {s_PNG_Files, s_Processed}
      [] SCRIPTS[i].script = n_filter_1858_files -> {s_Processed}
      [] SCRIPTS[i].script = n_filter_uniform_images_1858 -> {s_Processed_1858}
      [] SCRIPTS[i].script = n_divide_images_generic -> {s_Processed_1858_filtered}
      [] SCRIPTS[i].script = n_create_histograms_for_processed -> {s_Processed_filtered}
      [] SCRIPTS[i].script = n_medical_image_classifier -> {s_Processed}
      [] SCRIPTS[i].script = n_histogram_image_classifier -> {s_Processed_histograms}
      [] SCRIPTS[i].script = n_divided_image_classifier -> {s_Processed_1858_filtered_divided}

writes_to(i) ==
    CASE SCRIPTS[i].script = n_convert_tif_to_png -> {s_Convert_raw_data}
      [] SCRIPTS[i].script = n_separate_png_files -> {s_PNG_Files}
      [] SCRIPTS[i].script = n_move_reflection_coefficient -> {s_PNG_Files}
      [] SCRIPTS[i].script = n_delete_post_files -> {s_PNG_Files}
      [] SCRIPTS[i].script = n_consolidate_png_files -> {s_Processed}
      [] SCRIPTS[i].script = n_flatten_crc_structure -> {s_Processed}
      [] SCRIPTS[i].script = n_count_png_files -> {}
      [] SCRIPTS[i].script = n_filter_1858_files -> {s_Processed_1858}
      [] SCRIPTS[i].script = n_filter_uniform_images_1858 -> {s_Processed_1858_filtered}
      [] SCRIPTS[i].script = n_divide_images_generic -> {s_Processed_1858_filtered_divided}
      [] SCRIPTS[i].script = n_create_histograms_for_processed -> {s_Processed_histograms}
      [] SCRIPTS[i].script = n_medical_image_classifier -> {}
      [] SCRIPTS[i].script = n_histogram_image_classifier -> {}
      [] SCRIPTS[i].script = n_divided_image_classifier -> {}

\* C16 (the claim as stated): every directory a launched step reads its
\* images from is the raw source tree or is written by a step earlier in
\* SCRIPTS.
C16_InputsProducedEarlier ==
    \A i \in running :
        reads_from(i) \subseteq {RawTree} \cup UNION {writes_to(j) : j \in 1..(i - 1)}

====
